---------------------------- MODULE Spec2Model ----------------------------
(*
  A model of the ClearSwarm multi-agent runtime (src/src/multi_agent).

  Three specifications share this module:

    Spec       one AgentRun: Agent.run's main loop, AgentOrchestrator,
               TaskManager, the conversation and the run's rows in the
               execution store (core/agent.py, core/orchestrator.py,
               core/database.py).  asyncio is cooperative: a task wrapper or a
               stop request only runs while the orchestrator is suspended at
               an await, so the task-side actions are guarded by Suspended.

    SpecStore  the execution tree: several AgentRuns with parent edges, the
               process-wide _running_tasks map and the stop endpoints
               (web_interface/api/agents.py, core/scheduler.py).

    SpecSched  the schedules table and the scheduler's bookkeeping
               (core/database.py, core/scheduler.py).
*)
EXTENDS Integers, Sequences, FiniteSets, TLC

VARIABLES
  \* ---- Agent.run locals (core/agent.py) ----
  pc,                  \* position of the run's coroutine
  iterations,
  llm_should_continue,
  session_ended,
  final_response,      \* the turn whose response run() would return; 0: ""
  \* ---- conversation (ConversationManager.messages) ----
  messages,
  \* ---- the turn being processed (_process_tool_calls locals) ----
  tool_calls,          \* the blocks extract_all_tool_calls returned
  sync_calls,
  async_calls,
  end_session_call,
  sync_idx,
  launched_task_ids,
  has_pending,
  pending_tasks_msg,   \* handle_iteration: the transient message was injected
  \* ---- TaskManager ----
  pending_tasks,       \* keys of pending_tasks / pending_tasks_info, in dict order
  completed_results,   \* asyncio.Queue of <<task_id, result>>
  task_counter,
  launched_count,
  processed_count,
  tasks,               \* asyncio tasks created by launch_task: id -> record
  \* ---- execution store rows of this run ----
  run_row,             \* agent_executions row of the run
  tool_executions,     \* tool_executions rows, in insertion order
  cur_exec,            \* tool_execution_id held by the control path
  now,                 \* wall clock; time passes when a stop request arrives
  cancel_requested,    \* task.cancel() was called on the run's asyncio task
  \* ---- execution tree (SpecStore) ----
  executions,          \* agent_executions rows, runId = position
  running_tasks,       \* _running_tasks: set of [key, handle]
  handles,             \* asyncio tasks of the process, handle = position
  runs,                \* the live Agent objects: handle, phase of run()
  last_op,             \* the last stop call, while no run was created since
  store_clock,         \* wall clock of the store; time passes at a stop call
  \* ---- schedules (SpecSched) ----
  schedules,
  wall,
  fired,
  calc                 \* the last _calculate_next_run call for a schedule never run

run_vars == <<pc, iterations, llm_should_continue, session_ended,
              final_response, messages,
              tool_calls, sync_calls, async_calls,
                 end_session_call, sync_idx,
              launched_task_ids, has_pending, pending_tasks_msg, pending_tasks,
              completed_results, task_counter, launched_count,
              processed_count, tasks, run_row, tool_executions, cur_exec,
              now, cancel_requested>>

store_vars == <<executions, running_tasks, handles, runs, last_op,
                store_clock>>

sched_vars == <<schedules, wall, fired, calc>>

vars == <<run_vars, store_vars, sched_vars>>

-----------------------------------------------------------------------------
(* Nullable columns: NULL is the empty tuple, a value v is <<v>>. *)
NULL == <<>>
Some(v) == <<v>>

END_SESSION_TOOL == "end_session"

\* max_iterations of Agent.run (default 50 in the code), bounded for checking
MaxIterations == 2

\* bound on the asynchronous tasks one run launches
MaxTasks == 3

\* AgentConfig.tools of the modelled agent (tools.txt)
AllowedCallables == {"calc", "echo", "slow", "fast", "ghost"}
\* ToolLoader.get_all_tools()
RegisteredTools == {"calc", "echo", "slow", "fast", "shell", END_SESSION_TOOL}
\* AgentLoader._agent_configs
RegisteredAgents == {}

\* One <tool_call> block as extract_all_tool_calls returns it; idx is the
\* textual position of the block in the response.
Block(i, name, mode, bad) ==
  [idx |-> i, tool_name |-> name, call_mode |-> mode, parse_error |-> bad]

Sync(i, name)  == Block(i, name, "synchronous", FALSE)
Async(i, name) == Block(i, name, "asynchronous", FALSE)
EndS(i)        == Block(i, END_SESSION_TOOL, "synchronous", FALSE)
Bad(i, name)   == Block(i, name, "synchronous", TRUE)

\* The assistant responses the LLM may produce in a turn (after
\* extract_all_tool_calls).  The empty response also stands for the error
\* text _call_llm returns when the transport fails.
Responses ==
  { <<>>,
    <<Sync(1, "calc")>>,
    <<Sync(1, "calc"), Sync(2, "echo")>>,
    <<Async(1, "slow")>>,
    <<Async(1, "slow"), Async(2, "fast")>>,
    <<EndS(1)>>,
    <<Async(1, "slow"), EndS(2)>>,
    <<Sync(1, "calc"), Async(2, "slow")>>,
    <<Sync(1, "calc"), EndS(2)>>,
    <<EndS(1), Sync(2, "calc")>>,
    <<Bad(1, "calc"), Sync(2, "echo")>>,
    <<Sync(1, "echo"), Bad(2, "calc"), Async(3, "slow")>>,
    <<Sync(1, "shell")>>,
    <<Async(1, "shell")>>,
    <<Sync(1, "ghost")>> }

\* What tool.execute does: return its text, or raise
ToolOutcomes == {"ok", "raise"}

-----------------------------------------------------------------------------
(* ConversationManager: one record per message.  Unused fields keep their
   default so that any two messages can be compared. *)
Msg(role, kind, turn, idx, name, result, ids) ==
  [role |-> role, kind |-> kind, turn |-> turn, idx |-> idx, name |-> name,
   result |-> result, ids |-> ids]

SystemPromptMsg == Msg("system", "system_prompt", 0, 0, "", "", <<>>)
UserRequestMsg  == Msg("user", "user_message", 0, 0, "", "", <<>>)

\* build_pending_tasks_message: the transient system message
PendingTasksMsg(turn, ids) ==
  Msg("system", "pending_tasks", turn, Len(ids), "", "", ids)

\* variant: the reminder is not appended
add_no_tool_call_warning_skipped(msgs, turn) == msgs

add_no_tool_call_warning(msgs, turn) ==
  Append(msgs, Msg("system", "no_tool_call_warning", turn, 0, "", "", <<>>))

\* variant: the assistant message is not recorded
add_assistant_message_dropped(msgs, turn) == msgs

add_assistant_message(msgs, turn) ==
  Append(msgs, Msg("assistant", "assistant", turn, 0, "", "", <<>>))

add_parse_error(msgs, turn, blk) ==
  Append(msgs, Msg("user", "parse_error", turn, blk.idx, blk.tool_name, "", <<>>))

add_tool_result(msgs, turn, blk, result) ==
  Append(msgs, Msg("user", "tool_result", turn, blk.idx, blk.tool_name, result, <<>>))

\* mutant: the completion message is not appended
add_task_completed_dropped(msgs, task_id, result) == msgs

\* variant: the completion message is put at the front of the conversation
add_task_completed_at_front(msgs, task_id, result) ==
  <<Msg("user", "task_completed", 0, 0, "", result, <<task_id>>)>> \o msgs

add_task_completed(msgs, task_id, result) ==
  Append(msgs, Msg("user", "task_completed", 0, 0, "", result, <<task_id>>))

\* variant: the notice lists the newest task first
add_tasks_launched_notification_newest_first(msgs, turn, ids) ==
  Append(msgs, Msg("system", "tasks_launched", turn, Len(ids), "",  "",
                   [i \in 1..Len(ids) |-> ids[Len(ids) + 1 - i]]))

add_tasks_launched_notification(msgs, turn, ids) ==
  Append(msgs, Msg("system", "tasks_launched", turn, Len(ids), "", "", ids))

add_end_session_warning(msgs, turn, count, ids) ==
  Append(msgs, Msg("system", "end_session_warning", turn, count, "", "", ids))

\* variant: the last message is left in place
remove_last_message_kept(msgs) == msgs

remove_last_message(msgs) ==
  IF Len(msgs) > 0 THEN SubSeq(msgs, 1, Len(msgs) - 1) ELSE msgs

-----------------------------------------------------------------------------
(* ToolCallHandler *)

RECURSIVE LastEndSession(_)
LastEndSession(calls) ==
  IF calls = <<>> THEN NULL
  ELSE IF calls[Len(calls)].tool_name = END_SESSION_TOOL
       THEN Some(calls[Len(calls)])
       ELSE LastEndSession(SubSeq(calls, 1, Len(calls) - 1))

IsSyncCall(c)  == c.tool_name # END_SESSION_TOOL /\ c.call_mode = "synchronous"
IsAsyncCall(c) == c.tool_name # END_SESSION_TOOL /\ c.call_mode # "synchronous"
\* variant: a malformed block is kept, with the empty parameters it was given
IsValid_despite_parse_error(c) == TRUE

IsValid(c) == ~c.parse_error
IsParseError(c) == c.parse_error

Reverse(q) == [i \in 1..Len(q) |-> q[Len(q) + 1 - i]]

\* mutant: synchronous calls are collected in reverse (insert at the front)
categorize_tool_calls_reversed(calls) ==
  <<LastEndSession(calls), Reverse(SelectSeq(calls, IsSyncCall)),
    SelectSeq(calls, IsAsyncCall)>>

\* variant: with an end_session in the turn the synchronous calls are dropped
categorize_tool_calls_end_session_alone(calls) ==
  IF LastEndSession(calls) # NULL
  THEN <<LastEndSession(calls), <<>>, SelectSeq(calls, IsAsyncCall)>>
  ELSE <<NULL, SelectSeq(calls, IsSyncCall), SelectSeq(calls, IsAsyncCall)>>

\* categorize_tool_calls: <<end_session_call, sync_tool_calls, async_tool_calls>>
categorize_tool_calls(calls) ==
  <<LastEndSession(calls), SelectSeq(calls, IsSyncCall), SelectSeq(calls, IsAsyncCall)>>

\* _should_continue_generating
should_continue_generating(sync, async) ==
  IF sync # <<>> /\ async = <<>> THEN TRUE
  ELSE IF async # <<>> THEN FALSE
  ELSE FALSE

\* the user messages _process_tool_calls appends for the malformed blocks
RECURSIVE AddParseErrors(_, _, _)
AddParseErrors(msgs, turn, calls) ==
  IF calls = <<>> THEN msgs
  ELSE AddParseErrors(
         IF Head(calls).parse_error THEN add_parse_error(msgs, turn, Head(calls))
         ELSE msgs,
         turn, Tail(calls))

-----------------------------------------------------------------------------
(* AgentDatabase: the writes the run performs *)

create_tool_execution(rows, turn, blk, call_mode, task, t) ==
  Append(rows, [tool_name |-> blk.tool_name, call_mode |-> call_mode,
                turn |-> turn, idx |-> blk.idx, task |-> task,
                started_at |-> t, completed_at |-> NULL, result |-> NULL])

\* mutant: completion stamps completed_at but does not store the result
complete_tool_execution_no_result(rows, id, result, t) ==
  [rows EXCEPT ![id].completed_at = Some(t)]

complete_tool_execution(rows, id, result, t) ==
  [rows EXCEPT ![id].completed_at = Some(t), ![id].result = Some(result)]

update_agent_state(row, state) ==
  [row EXCEPT !.current_state = state]

complete_agent_execution(row, t) ==
  [row EXCEPT !.completed_at = Some(t), !.current_state = "completed"]

-----------------------------------------------------------------------------
(* TaskManager *)

generate_task_id(tool_name, counter) == <<tool_name, counter>>

has_pending_tasks == Len(pending_tasks) > 0

\* mutant: end_session guarded by the running tasks only (has_pending_tasks)
has_outstanding_tasks_pending_only == Len(pending_tasks) > 0

\* mutant: the tasks launched in the current turn are not counted yet
has_outstanding_tasks_before_launch ==
  launched_count - Len(launched_task_ids) > processed_count

has_outstanding_tasks == launched_count > processed_count

get_outstanding_count == launched_count - processed_count

mark_task_processed(n) == n + 1

RemoveTask(ids, task_id) ==
  SelectSeq(ids, LAMBDA x : x # task_id)

\* variant: no authorization check
Authorized_always(tool_name) == TRUE

\* Agent._execute_tool, the authorization check
Authorized(tool_name) ==
  tool_name \in {END_SESSION_TOOL} \cup AllowedCallables

\* the text _execute_tool returns for a dispatched tool
ExecResult(outcome) ==
  IF outcome = "ok" THEN "result" ELSE "tool_execution_error"

-----------------------------------------------------------------------------
(* One AgentRun: Agent.run with its AgentOrchestrator *)

Range(f) == {f[i] : i \in DOMAIN f}

\* the awaits at which the run's coroutine is suspended
YieldPoints == {"llm", "sync_exec", "end_exec", "block", "poll", "gather"}

\* the event loop may run something else: the run is suspended or over
Suspended == pc \in YieldPoints \cup {"done"}

\* a task made by asyncio.create_task runs its first step before the
\* creating coroutine is resumed (FIFO ready queue)
NoScheduled == \A id \in DOMAIN tasks : tasks[id].state # "scheduled"

\* the run's coroutine may be resumed normally
Resumable == NoScheduled /\ ~cancel_requested

\* no stop call is being tracked
NoOp == [op |-> "none", root |-> 0, project |-> "", n |-> 0, rep |-> FALSE]

IdleStore ==
  /\ executions = <<>>
  /\ running_tasks = {}
  /\ handles = <<>>
  /\ runs = <<>>
  /\ last_op = NoOp
  /\ store_clock = 1

\* no _calculate_next_run call yet
NoCalc ==
  [made |-> FALSE, anchor |-> 0, delta |-> 0, clock |-> 0, later |-> FALSE,
   result |-> 0]

IdleSched ==
  /\ schedules = <<>>
  /\ wall = 0
  /\ fired = <<>>
  /\ calc = NoCalc

\* Agent.__init__ followed by the first lines of Agent.run
InitRun ==
  /\ pc = "head"
  /\ iterations = 0
  /\ llm_should_continue = TRUE
  /\ session_ended = FALSE
  /\ final_response = 0
  /\ messages = <<SystemPromptMsg, UserRequestMsg>>
  /\ tool_calls = <<>>
  /\ sync_calls = <<>>
  /\ async_calls = <<>>
  /\ end_session_call = NULL
  /\ sync_idx = 1
  /\ launched_task_ids = <<>>
  /\ has_pending = FALSE
  /\ pending_tasks_msg = FALSE
  /\ pending_tasks = <<>>
  /\ completed_results = <<>>
  /\ task_counter = 1
  /\ launched_count = 0
  /\ processed_count = 0
  /\ tasks = <<>>
  /\ run_row = [current_state |-> "generating", completed_at |-> NULL]
  /\ tool_executions = <<>>
  /\ cur_exec = 0
  /\ now = 1
  /\ cancel_requested = FALSE

Init == InitRun /\ IdleStore /\ IdleSched

turn_vars  == <<tool_calls, sync_calls, async_calls,
                 end_session_call, sync_idx, launched_task_ids>>
loop_vars  == <<iterations, llm_should_continue, session_ended, final_response>>
tm_vars    == <<pending_tasks, completed_results, task_counter, launched_count,
                processed_count, tasks>>
db_vars    == <<run_row, tool_executions, cur_exec, now>>
other_vars == <<store_vars, sched_vars>>

\* ---- Agent.run: the while loop --------------------------------------------

\* variant: the while-condition admits one turn past the limit
IterationStart_one_past_limit ==
  /\ pc = "head"
  /\ iterations <= MaxIterations /\ ~session_ended
  /\ IF llm_should_continue
     THEN /\ iterations' = iterations + 1
          /\ run_row' = update_agent_state(run_row, "generating")
          /\ pending_tasks_msg' = (pending_tasks # <<>>)
          /\ messages' = IF pending_tasks # <<>>
                         THEN Append(messages,
                                     PendingTasksMsg(iterations + 1, pending_tasks))
                         ELSE messages
          /\ pc' = "llm"
     ELSE /\ pc' = "wait"
          /\ UNCHANGED <<iterations, run_row, pending_tasks_msg, messages>>
  /\ UNCHANGED <<llm_should_continue, session_ended, final_response, turn_vars,
                 has_pending,
                 tm_vars, tool_executions, cur_exec, now, cancel_requested,
                 other_vars>>

\* while-condition true.  With llm_should_continue: handle_iteration up to
\* the await of the LLM call; without: straight to the wait phase
IterationStart ==
  /\ pc = "head"
  /\ iterations < MaxIterations /\ ~session_ended
  /\ IF llm_should_continue
     THEN /\ iterations' = iterations + 1
          /\ run_row' = update_agent_state(run_row, "generating")
          /\ pending_tasks_msg' = (pending_tasks # <<>>)
          /\ messages' = IF pending_tasks # <<>>
                         THEN Append(messages,
                                     PendingTasksMsg(iterations + 1, pending_tasks))
                         ELSE messages
          /\ pc' = "llm"
     ELSE /\ pc' = "wait"
          /\ UNCHANGED <<iterations, run_row, pending_tasks_msg, messages>>
  /\ UNCHANGED <<llm_should_continue, session_ended, final_response, turn_vars,
                 has_pending,
                 tm_vars, tool_executions, cur_exec, now, cancel_requested,
                 other_vars>>

\* while-condition false
LoopExit ==
  /\ pc = "head"
  /\ ~(iterations < MaxIterations /\ ~session_ended)
  /\ pc' = "remaining"
  /\ UNCHANGED <<loop_vars, messages, turn_vars, has_pending, pending_tasks_msg,
                 tm_vars, db_vars, cancel_requested, other_vars>>

\* a store write on the control path raises (update_agent_state at the head
\* of handle_iteration): the exception leaves the loop for the finally block
StoreFailure ==
  /\ pc = "head"
  /\ iterations < MaxIterations /\ ~session_ended
  /\ llm_should_continue
  /\ iterations' = iterations + 1
  /\ pc' = "finally"
  /\ UNCHANGED <<llm_should_continue, session_ended, final_response, messages,
                 turn_vars,
                 has_pending, pending_tasks_msg, tm_vars, db_vars,
                 cancel_requested, other_vars>>

\* ---- handle_iteration after the LLM call, _process_tool_calls ------------

LLMReturn(resp) ==
  /\ pc = "llm"
  /\ Resumable
  /\ launched_count + Len(SelectSeq(resp, IsAsyncCall)) <= MaxTasks
  /\ pending_tasks_msg' = FALSE
  /\ tool_calls' = resp
  /\ final_response' = iterations
  /\ LET base == IF pending_tasks_msg THEN remove_last_message(messages)
                 ELSE messages
         valid == SelectSeq(resp, IsValid)
         cat   == categorize_tool_calls(valid)
     IN IF resp = <<>>
        THEN /\ messages' = add_no_tool_call_warning(base, iterations)
             /\ llm_should_continue' = TRUE
             /\ session_ended' = FALSE
             /\ pc' = "wait"
             /\ UNCHANGED <<sync_calls, async_calls, end_session_call, sync_idx,
                            launched_task_ids>>
        ELSE /\ messages' = add_assistant_message(
                              AddParseErrors(base, iterations, resp), iterations)
             /\ end_session_call' = cat[1]
             /\ sync_calls' = cat[2]
             /\ async_calls' = cat[3]
             /\ sync_idx' = 1
             /\ launched_task_ids' = <<>>
             /\ pc' = "sync"
             /\ UNCHANGED <<llm_should_continue, session_ended>>
  /\ UNCHANGED <<iterations, has_pending, tm_vars, db_vars, cancel_requested,
                 other_vars>>

\* _execute_sync_calls: the next call is refused by the authorization check
SyncUnauthorized ==
  /\ pc = "sync"
  /\ sync_idx <= Len(sync_calls)
  /\ ~Authorized(sync_calls[sync_idx].tool_name)
  /\ messages' = add_tool_result(messages, iterations, sync_calls[sync_idx],
                                 "SECURITY ERROR")
  /\ sync_idx' = sync_idx + 1
  /\ UNCHANGED <<pc, loop_vars, tool_calls, sync_calls, async_calls,
                 end_session_call,
                 launched_task_ids, has_pending, pending_tasks_msg, tm_vars,
                 db_vars, cancel_requested, other_vars>>

\* _execute_sync_calls: the next call is dispatched (row created, state
\* executing_tool) and the coroutine awaits the worker thread
SyncDispatch ==
  /\ pc = "sync"
  /\ sync_idx <= Len(sync_calls)
  /\ Authorized(sync_calls[sync_idx].tool_name)
  /\ sync_calls[sync_idx].tool_name \in RegisteredTools \cup RegisteredAgents
  /\ tool_executions' = create_tool_execution(tool_executions, iterations,
                          sync_calls[sync_idx], "synchronous", NULL, now)
  /\ cur_exec' = Len(tool_executions) + 1
  /\ run_row' = update_agent_state(run_row, "executing_tool")
  /\ UNCHANGED now
  /\ pc' = "sync_exec"
  /\ UNCHANGED <<loop_vars, messages, turn_vars, has_pending, pending_tasks_msg,
                 tm_vars, cancel_requested, other_vars>>

\* _execute_tool: the name is authorized but neither a tool nor an agent
SyncNotFound ==
  /\ pc = "sync"
  /\ sync_idx <= Len(sync_calls)
  /\ Authorized(sync_calls[sync_idx].tool_name)
  /\ sync_calls[sync_idx].tool_name \notin RegisteredTools \cup RegisteredAgents
  /\ tool_executions' = complete_tool_execution(
                          create_tool_execution(tool_executions, iterations,
                            sync_calls[sync_idx], "synchronous", NULL, now),
                          Len(tool_executions) + 1, "tool_not_found", now)
  /\ run_row' = update_agent_state(run_row, "executing_tool")
  /\ UNCHANGED now
  /\ messages' = add_tool_result(messages, iterations, sync_calls[sync_idx],
                                 "tool_not_found")
  /\ sync_idx' = sync_idx + 1
  /\ UNCHANGED <<pc, loop_vars, tool_calls, sync_calls, async_calls,
                 end_session_call,
                 launched_task_ids, has_pending, pending_tasks_msg, tm_vars,
                 cur_exec, cancel_requested, other_vars>>

\* the synchronous tool returned or raised: complete the row, append the
\* result, go on with the next call
SyncReturn(outcome) ==
  /\ pc = "sync_exec"
  /\ Resumable
  /\ tool_executions' = complete_tool_execution(tool_executions, cur_exec,
                                                ExecResult(outcome), now)
  /\ UNCHANGED now
  /\ messages' = add_tool_result(messages, iterations, sync_calls[sync_idx],
                                 ExecResult(outcome))
  /\ sync_idx' = sync_idx + 1
  /\ pc' = "sync"
  /\ UNCHANGED <<loop_vars, tool_calls, sync_calls, async_calls,
                 end_session_call,
                 launched_task_ids, has_pending, pending_tasks_msg, tm_vars,
                 run_row, cur_exec, cancel_requested, other_vars>>

\* ---- _launch_async_calls / TaskManager.launch_task ------------------------

\* variant: one number per turn, shared by the calls of that turn
NewTaskIds_one_number_per_turn(calls, counter) ==
  [i \in 1..Len(calls) |-> generate_task_id(calls[i].tool_name, counter)]

\* the task ids generate_task_id hands out for the calls, in textual order
NewTaskIds(calls, counter) ==
  [i \in 1..Len(calls) |-> generate_task_id(calls[i].tool_name, counter + i - 1)]

\* launch_task: _launched_count after admitting k tasks
launch_task(launched, k) == launched + k

\* the synchronous calls are done: launch every asynchronous call
LaunchAsyncCalls ==
  /\ pc = "sync"
  /\ sync_idx > Len(sync_calls)
  /\ LET ids == NewTaskIds(async_calls, task_counter)
     IN /\ launched_task_ids' = ids
        /\ task_counter' = task_counter + Len(ids)
        /\ pending_tasks' = pending_tasks \o ids
        /\ launched_count' = launch_task(launched_count, Len(ids))
        /\ tasks' = [id \in DOMAIN tasks \cup Range(ids) |->
                       IF id \in DOMAIN tasks THEN tasks[id]
                       ELSE [state |-> "scheduled", exec |-> 0,
                             blk |-> async_calls[CHOOSE i \in 1..Len(ids) : ids[i] = id],
                             turn |-> iterations]]
  /\ pc' = "post"
  /\ UNCHANGED <<loop_vars, messages, tool_calls, sync_calls, async_calls,
                 end_session_call,
                 sync_idx, has_pending, pending_tasks_msg, completed_results,
                 processed_count, db_vars, cancel_requested, other_vars>>

\* ---- _handle_end_session --------------------------------------------------

\* end_session with outstanding tasks: warning, state waiting, keep waiting
EndSessionReject ==
  /\ pc = "post"
  /\ end_session_call # NULL
  /\ has_outstanding_tasks
  /\ messages' = add_end_session_warning(messages, iterations,
                                         get_outstanding_count, pending_tasks)
  /\ run_row' = update_agent_state(run_row, "waiting")
  /\ llm_should_continue' = FALSE
  /\ session_ended' = FALSE
  /\ pc' = "wait"
  /\ UNCHANGED <<iterations, final_response, turn_vars, has_pending, pending_tasks_msg, tm_vars,
                 tool_executions, cur_exec, now, cancel_requested, other_vars>>

\* end_session with nothing outstanding: the built-in tool is executed
EndSessionAccept ==
  /\ pc = "post"
  /\ end_session_call # NULL
  /\ ~has_outstanding_tasks
  /\ tool_executions' = create_tool_execution(tool_executions, iterations,
                          end_session_call[1], "synchronous", NULL, now)
  /\ cur_exec' = Len(tool_executions) + 1
  /\ run_row' = update_agent_state(run_row, "executing_tool")
  /\ UNCHANGED now
  /\ pc' = "end_exec"
  /\ UNCHANGED <<loop_vars, messages, turn_vars, has_pending, pending_tasks_msg,
                 tm_vars, cancel_requested, other_vars>>

\* variant: the accepted end_session is not reported to run()
EndSessionReturn_session_left_open ==
  /\ pc = "end_exec"
  /\ Resumable
  /\ tool_executions' = complete_tool_execution(tool_executions, cur_exec,
                                                "SESSION_END", now)
  /\ UNCHANGED now
  /\ llm_should_continue' = FALSE
  /\ session_ended' = FALSE
  /\ pc' = "wait"
  /\ UNCHANGED <<iterations, final_response, messages, turn_vars, has_pending, pending_tasks_msg,
                 tm_vars, run_row, cur_exec, cancel_requested, other_vars>>

\* the end_session tool returned: the session has ended
EndSessionReturn ==
  /\ pc = "end_exec"
  /\ Resumable
  /\ tool_executions' = complete_tool_execution(tool_executions, cur_exec,
                                                "SESSION_END", now)
  /\ UNCHANGED now
  /\ llm_should_continue' = FALSE
  /\ session_ended' = TRUE
  /\ pc' = "wait"
  /\ UNCHANGED <<iterations, final_response, messages, turn_vars, has_pending, pending_tasks_msg,
                 tm_vars, run_row, cur_exec, cancel_requested, other_vars>>

\* no end_session in the turn: launch notice, continuation decision, state
FinishTurn ==
  /\ pc = "post"
  /\ end_session_call = NULL
  /\ messages' = IF launched_task_ids # <<>>
                 THEN add_tasks_launched_notification(messages, iterations,
                                                      launched_task_ids)
                 ELSE messages
  /\ llm_should_continue' = should_continue_generating(sync_calls, async_calls)
  /\ session_ended' = FALSE
  /\ run_row' = update_agent_state(run_row,
                  IF should_continue_generating(sync_calls, async_calls)
                  THEN "generating" ELSE "waiting")
  /\ pc' = "wait"
  /\ UNCHANGED <<iterations, final_response, turn_vars, has_pending, pending_tasks_msg, tm_vars,
                 tool_executions, cur_exec, now, cancel_requested, other_vars>>

\* ---- wait phase: wait_for_task_result / process_task_result --------------

\* variant: process_task_result applied to the newest queued result
ProcessTaskResult_newest_first ==
  LET task_id == completed_results[Len(completed_results)][1]
      result  == completed_results[Len(completed_results)][2]
  IN /\ completed_results' = SubSeq(completed_results, 1, Len(completed_results) - 1)
     /\ messages' = IF ~session_ended
                    THEN add_task_completed(messages, task_id, result)
                    ELSE messages
     /\ pending_tasks' = RemoveTask(pending_tasks, task_id)
     /\ processed_count' = mark_task_processed(processed_count)
     /\ llm_should_continue' = ~session_ended
     /\ pc' = "head"
     /\ UNCHANGED <<iterations, final_response, session_ended, turn_vars, pending_tasks_msg,
                    task_counter, launched_count, tasks, db_vars,
                    cancel_requested, other_vars>>

\* process_task_result applied to the head of the queue
ProcessTaskResult ==
  LET task_id == Head(completed_results)[1]
      result  == Head(completed_results)[2]
  IN /\ completed_results' = Tail(completed_results)
     /\ messages' = IF ~session_ended
                    THEN add_task_completed(messages, task_id, result)
                    ELSE messages
     /\ pending_tasks' = RemoveTask(pending_tasks, task_id)
     /\ processed_count' = mark_task_processed(processed_count)
     /\ llm_should_continue' = ~session_ended
     /\ pc' = "head"
     /\ UNCHANGED <<iterations, final_response, session_ended, turn_vars, pending_tasks_msg,
                    task_counter, launched_count, tasks, db_vars,
                    cancel_requested, other_vars>>

\* a result is already queued: take it without waiting
WaitTakeQueued ==
  /\ pc = "wait"
  /\ completed_results # <<>>
  /\ has_pending' = has_pending_tasks
  /\ ProcessTaskResult

\* tasks are still running and the queue is empty: block on the queue
WaitBlock ==
  /\ pc = "wait"
  /\ completed_results = <<>>
  /\ has_pending_tasks
  /\ has_pending' = TRUE
  /\ pc' = "block"
  /\ UNCHANGED <<loop_vars, messages, turn_vars, pending_tasks_msg, tm_vars,
                 db_vars, cancel_requested, other_vars>>

\* variant: the poll has no timeout, it blocks on the queue
WaitPoll_without_timeout ==
  /\ pc = "wait"
  /\ completed_results = <<>>
  /\ ~has_pending_tasks
  /\ ~llm_should_continue
  /\ has_pending' = FALSE
  /\ pc' = "block"
  /\ UNCHANGED <<loop_vars, messages, turn_vars, pending_tasks_msg, tm_vars,
                 db_vars, cancel_requested, other_vars>>

\* nothing running, nothing queued, no generation wanted: quick poll
WaitPoll ==
  /\ pc = "wait"
  /\ completed_results = <<>>
  /\ ~has_pending_tasks
  /\ ~llm_should_continue
  /\ has_pending' = FALSE
  /\ pc' = "poll"
  /\ UNCHANGED <<loop_vars, messages, turn_vars, pending_tasks_msg, tm_vars,
                 db_vars, cancel_requested, other_vars>>

\* variant: 'continue generating' is honoured before looking at the running
\* tasks
WaitSkip_despite_running_tasks ==
  /\ pc = "wait"
  /\ completed_results = <<>>
  /\ llm_should_continue
  /\ has_pending' = has_pending_tasks
  /\ pc' = "head"
  /\ UNCHANGED <<loop_vars, messages, turn_vars, pending_tasks_msg, tm_vars,
                 db_vars, cancel_requested, other_vars>>

\* nothing running, nothing queued, generation wanted: loop at once
WaitSkip ==
  /\ pc = "wait"
  /\ completed_results = <<>>
  /\ ~has_pending_tasks
  /\ llm_should_continue
  /\ has_pending' = FALSE
  /\ pc' = "head"
  /\ UNCHANGED <<loop_vars, messages, turn_vars, pending_tasks_msg, tm_vars,
                 db_vars, cancel_requested, other_vars>>

\* the blocking get returns the next result
BlockGet ==
  /\ pc = "block"
  /\ Resumable
  /\ completed_results # <<>>
  /\ UNCHANGED has_pending
  /\ ProcessTaskResult

\* the poll ends: a result if one arrived, else the timeout branch of run()
PollEnd ==
  /\ pc = "poll"
  /\ Resumable
  /\ UNCHANGED has_pending
  /\ IF completed_results # <<>>
     THEN ProcessTaskResult
     ELSE /\ IF ~session_ended
             THEN llm_should_continue' = TRUE /\ pc' = "head"
             ELSE llm_should_continue' = llm_should_continue /\ pc' = "remaining"
          /\ UNCHANGED <<iterations, final_response, session_ended, messages, turn_vars,
                         pending_tasks_msg, tm_vars, db_vars, cancel_requested,
                         other_vars>>

\* ---- wait_for_remaining_tasks and the finally block -----------------------

\* get_remaining_tasks: gather them when there are any
RemainingGather ==
  /\ pc = "remaining"
  /\ pending_tasks # <<>>
  /\ pc' = "gather"
  /\ UNCHANGED <<loop_vars, messages, turn_vars, has_pending, pending_tasks_msg,
                 tm_vars, db_vars, cancel_requested, other_vars>>

\* asyncio.gather returns once every remaining task is done
GatherDone ==
  /\ pc = "gather"
  /\ Resumable
  /\ \A id \in DOMAIN tasks : tasks[id].state \in {"done", "cancelled"}
  /\ pc' = "remaining_drain"
  /\ UNCHANGED <<loop_vars, messages, turn_vars, has_pending, pending_tasks_msg,
                 tm_vars, db_vars, cancel_requested, other_vars>>

RemainingNone ==
  /\ pc = "remaining"
  /\ pending_tasks = <<>>
  /\ pc' = "remaining_drain"
  /\ UNCHANGED <<loop_vars, messages, turn_vars, has_pending, pending_tasks_msg,
                 tm_vars, db_vars, cancel_requested, other_vars>>

\* mutant: the drain loop counts once more than it dequeues
drain_processed_overcount(processed, queue) == processed + Len(queue) + 1

\* mark_task_processed once for each result drained from the queue
drain_processed(processed, queue) == processed + Len(queue)

\* drain the queue, counting every leftover result as processed
DrainRemaining ==
  /\ pc = "remaining_drain"
  /\ processed_count' = drain_processed(processed_count, completed_results)
  /\ completed_results' = <<>>
  /\ pc' = "finally"
  /\ UNCHANGED <<loop_vars, messages, turn_vars, has_pending, pending_tasks_msg,
                 pending_tasks, task_counter, launched_count, tasks, db_vars,
                 cancel_requested, other_vars>>

\* finally: complete_agent_execution, save the log
Finalize ==
  /\ pc = "finally"
  /\ run_row' = complete_agent_execution(run_row, now)
  /\ UNCHANGED now
  /\ pc' = "done"
  /\ UNCHANGED <<loop_vars, messages, turn_vars, has_pending, pending_tasks_msg,
                 tm_vars, tool_executions, cur_exec, cancel_requested, other_vars>>

\* ---- TaskManager.launch_task._task_wrapper (one asyncio task per launch) --

\* variant: the wrapper leaves pending without queueing its result
TaskFinish_not_queued(id, result) ==
  /\ completed_results' = completed_results
  /\ pending_tasks' = RemoveTask(pending_tasks, id)

\* _task_wrapper's tail: queue the result, leave pending
TaskFinish(id, result) ==
  /\ completed_results' = Append(completed_results, <<id, result>>)
  /\ pending_tasks' = RemoveTask(pending_tasks, id)

\* the wrapper's first step: _execute_tool up to its await
TaskStart(id) ==
  /\ Suspended
  /\ tasks[id].state = "scheduled"
  /\ IF ~Authorized(tasks[id].blk.tool_name)
     THEN /\ TaskFinish(id, "SECURITY ERROR")
          /\ tasks' = [tasks EXCEPT ![id].state = "done"]
          /\ UNCHANGED db_vars
     ELSE /\ run_row' = update_agent_state(run_row, "executing_tool")
          /\ UNCHANGED now
          /\ UNCHANGED cur_exec
          /\ IF tasks[id].blk.tool_name \in RegisteredTools \cup RegisteredAgents
             THEN /\ tool_executions' = create_tool_execution(tool_executions,
                                          tasks[id].turn, tasks[id].blk,
                                          "asynchronous", Some(id), now)
                  /\ tasks' = [tasks EXCEPT ![id].state = "running",
                                            ![id].exec = Len(tool_executions) + 1]
                  /\ UNCHANGED <<completed_results, pending_tasks>>
             ELSE /\ tool_executions' = complete_tool_execution(
                                          create_tool_execution(tool_executions,
                                            tasks[id].turn, tasks[id].blk,
                                            "asynchronous", Some(id), now),
                                          Len(tool_executions) + 1,
                                          "tool_not_found", now)
                  /\ tasks' = [tasks EXCEPT ![id].state = "done",
                                            ![id].exec = Len(tool_executions) + 1]
                  /\ TaskFinish(id, "tool_not_found")
  /\ UNCHANGED <<pc, loop_vars, messages, turn_vars, has_pending,
                 pending_tasks_msg, task_counter, launched_count,
                 processed_count, cancel_requested, other_vars>>

\* variant: the exception leaves the wrapper, no result is queued
TaskRaised_result_lost(id) ==
  /\ completed_results' = completed_results
  /\ pending_tasks' = RemoveTask(pending_tasks, id)

\* _task_wrapper's except branch: "Error in task <id>: <message>" is queued,
\* and the finally block removes the task from pending
TaskRaised(id) ==
  /\ completed_results' = Append(completed_results, <<id, "task_error">>)
  /\ pending_tasks' = RemoveTask(pending_tasks, id)

\* execute_func raises into the wrapper: create_tool_execution, the first
\* store write of _execute_tool, fails outside its try block
TaskStoreFailure(id) ==
  /\ Suspended
  /\ tasks[id].state = "scheduled"
  /\ Authorized(tasks[id].blk.tool_name)
  /\ TaskRaised(id)
  /\ tasks' = [tasks EXCEPT ![id].state = "done"]
  /\ UNCHANGED <<pc, loop_vars, messages, turn_vars, has_pending,
                 pending_tasks_msg, task_counter, launched_count,
                 processed_count, db_vars, cancel_requested, other_vars>>

\* the tool returned or raised inside the wrapper
TaskComplete(id, outcome) ==
  /\ Suspended
  /\ tasks[id].state = "running"
  /\ tool_executions' = complete_tool_execution(tool_executions, tasks[id].exec,
                                                ExecResult(outcome), now)
  /\ UNCHANGED now
  /\ TaskFinish(id, ExecResult(outcome))
  /\ tasks' = [tasks EXCEPT ![id].state = "done"]
  /\ UNCHANGED <<pc, loop_vars, messages, turn_vars, has_pending,
                 pending_tasks_msg, task_counter, launched_count,
                 processed_count, run_row, cur_exec, cancel_requested,
                 other_vars>>

\* ---- cancellation of the run's asyncio task (stop endpoints) --------------

\* a stop endpoint acts on this run: task.cancel() and the row is completed
StopRequest ==
  /\ pc \in YieldPoints
  /\ ~cancel_requested
  /\ cancel_requested' = TRUE
  /\ run_row' = IF run_row.completed_at = NULL
                THEN complete_agent_execution(run_row, now) ELSE run_row
  /\ now' = now + 1
  /\ UNCHANGED <<pc, loop_vars, messages, turn_vars, has_pending,
                 pending_tasks_msg, tm_vars, tool_executions, cur_exec,
                 other_vars>>

IsRunning(id) == tasks[id].state = "running"

\* CancelledError is raised at the await the coroutine is suspended in and
\* leaves run() through its finally block.  handle_iteration's own finally
\* removes the transient message; a cancelled gather cancels its children.
DeliverCancel ==
  /\ pc \in YieldPoints
  /\ cancel_requested
  /\ NoScheduled
  /\ messages' = IF pc = "llm" /\ pending_tasks_msg
                 THEN remove_last_message(messages) ELSE messages
  /\ pending_tasks_msg' = FALSE
  /\ IF pc = "gather"
     THEN /\ tasks' = [id \in DOMAIN tasks |->
                         IF IsRunning(id)
                         THEN [tasks[id] EXCEPT !.state = "cancelled"]
                         ELSE tasks[id]]
          /\ pending_tasks' = SelectSeq(pending_tasks, LAMBDA x : ~IsRunning(x))
     ELSE UNCHANGED <<tasks, pending_tasks>>
  /\ pc' = "finally"
  /\ UNCHANGED <<loop_vars, turn_vars, has_pending, completed_results,
                 task_counter, launched_count, processed_count, db_vars,
                 cancel_requested, other_vars>>

-----------------------------------------------------------------------------
Next ==
  \/ IterationStart
  \/ LoopExit
  \/ StoreFailure
  \/ \E resp \in Responses : LLMReturn(resp)
  \/ SyncUnauthorized
  \/ SyncDispatch
  \/ SyncNotFound
  \/ \E outcome \in ToolOutcomes : SyncReturn(outcome)
  \/ LaunchAsyncCalls
  \/ EndSessionReject
  \/ EndSessionAccept
  \/ EndSessionReturn
  \/ FinishTurn
  \/ WaitTakeQueued
  \/ WaitBlock
  \/ WaitPoll
  \/ WaitSkip
  \/ BlockGet
  \/ PollEnd
  \/ RemainingGather
  \/ GatherDone
  \/ RemainingNone
  \/ DrainRemaining
  \/ Finalize
  \/ \E id \in DOMAIN tasks : TaskStart(id)
  \/ \E id \in DOMAIN tasks : TaskStoreFailure(id)
  \/ \E id \in DOMAIN tasks : \E outcome \in ToolOutcomes : TaskComplete(id, outcome)
  \/ StopRequest
  \/ DeliverCancel

Spec == Init /\ [][Next]_vars

-----------------------------------------------------------------------------
(* Properties of one AgentRun (specification Spec) *)

TaskCompletedMsgs == {i \in DOMAIN messages : messages[i].kind = "task_completed"}

TaskCompletedAt(id) == {i \in TaskCompletedMsgs : messages[i].ids = <<id>>}

QueuedAt(id) == {i \in DOMAIN completed_results : completed_results[i][1] = id}

\* the main loop of run(), before wait_for_remaining_tasks and the finally block
InMainLoop ==
  pc \in {"head", "llm", "sync", "sync_exec", "post", "end_exec", "wait",
          "block", "poll"}

\* C1: whenever an end_session has been accepted (its execution started, or
\* the session ended), launched - processed is 0 and no result is waiting in
\* completedQueue: a queued, unprocessed result blocks acceptance.
C1_EndSessionOnlyWhenNoneOutstanding ==
  (pc = "end_exec" \/ session_ended) =>
     /\ get_outstanding_count = 0
     /\ completed_results = <<>>

\* an end_session was accepted in a run that had launched and processed a task
C1_Witness ==
  /\ session_ended
  /\ launched_count >= 1
  /\ TaskCompletedMsgs # {}

\* C2: launched >= processed in every state, and no step decreases either
\* counter.
C2_CountersMonotone ==
  /\ [](launched_count >= processed_count)
  /\ [][/\ launched_count' >= launched_count
        /\ processed_count' >= processed_count]_vars

\* a finished run whose final drain counted a result the loop never appended
C2_Witness ==
  /\ pc = "done"
  /\ processed_count = 2
  /\ Cardinality(TaskCompletedMsgs) < processed_count

\* C3: when run() has marked the AgentRun completed, launched = processed.
C3_FinalizedAllProcessed ==
  (pc = "done") => (launched_count = processed_count)

\* C4: in the main loop, processed counts exactly the appended task-completion
\* messages, outstanding() is the number of launched tasks without such a
\* message, and the result of every finished task is in the queue or in the
\* conversation exactly once (never lost, never duplicated).
C4_OutstandingIsUnappended ==
  InMainLoop =>
     /\ launched_count = Cardinality(DOMAIN tasks)
     /\ processed_count = Cardinality(TaskCompletedMsgs)
     /\ get_outstanding_count =
          Cardinality({id \in DOMAIN tasks : TaskCompletedAt(id) = {}})
     /\ \A i \in TaskCompletedMsgs : messages[i].ids[1] \in DOMAIN tasks
     /\ \A id \in DOMAIN tasks :
          Cardinality(TaskCompletedAt(id)) + Cardinality(QueuedAt(id))
            = IF tasks[id].state = "done" THEN 1 ELSE 0

\* one result appended and processed while another task is still outstanding
C4_Witness ==
  /\ InMainLoop
  /\ processed_count = 1
  /\ get_outstanding_count = 1

ToolResultsOfTurn(t) ==
  SelectSeq(messages, LAMBDA m : m.kind = "tool_result" /\ m.turn = t)

HasToolResult(t, i) ==
  \E k \in DOMAIN messages :
     /\ messages[k].kind = "tool_result"
     /\ messages[k].turn = t
     /\ messages[k].idx = i

\* C5: the synchronous calls of a turn are taken in textual order; the
\* results appended so far are those of the calls before the current one, in
\* that order; and a call is dispatched (its row exists) only when the result
\* of every earlier synchronous call of the turn is in the conversation.
C5_SyncCallsInTextualOrder ==
  /\ \A k \in 1..(Len(sync_calls) - 1) : sync_calls[k].idx < sync_calls[k + 1].idx
  /\ pc \in {"sync", "sync_exec", "post"} =>
       LET res == ToolResultsOfTurn(iterations)
       IN /\ Len(res) = IF pc = "post" THEN Len(sync_calls) ELSE sync_idx - 1
          /\ \A k \in 1..Len(res) :
               /\ res[k].idx = sync_calls[k].idx
               /\ res[k].name = sync_calls[k].tool_name
  /\ \A r \in DOMAIN tool_executions :
       (/\ tool_executions[r].task = NULL
        /\ tool_executions[r].tool_name # END_SESSION_TOOL
        /\ tool_executions[r].turn = iterations)
       => \A k \in DOMAIN sync_calls :
            sync_calls[k].idx < tool_executions[r].idx
              => HasToolResult(iterations, sync_calls[k].idx)

\* the second synchronous call of a turn is executing, the first one's result
\* is already appended
C5_Witness ==
  /\ pc = "sync_exec"
  /\ sync_idx = 2
  /\ Len(ToolResultsOfTurn(iterations)) = 1

\* C6: every tool_executions row has completed_at set iff result is set.
C6_CompletedAtIffResult ==
  \A r \in DOMAIN tool_executions :
     (tool_executions[r].completed_at # NULL) <=> (tool_executions[r].result # NULL)

\* a completed row next to a row still running
C6_Witness ==
  /\ \E r \in DOMAIN tool_executions : tool_executions[r].completed_at # NULL
  /\ \E r \in DOMAIN tool_executions :
        /\ tool_executions[r].completed_at = NULL
        /\ tool_executions[r].result = NULL

-----------------------------------------------------------------------------
(* The execution tree: agent_executions rows, the asyncio tasks that host the
   runs, the process-wide _running_tasks map and the two stop endpoints
   (specification SpecStore).  A run is abstracted to what matters to a
   stop: its LLM calls, the children it spawns, and its finally block. *)

MaxRuns == 3          \* agent_executions rows created in one behaviour
MaxStops == 2         \* calls of the stop endpoints in one behaviour

Projects == {"default", "other"}

\* keys of _running_tasks: run_agent tracks under the agent_id, the scheduler
\* under a synthetic "schedule_<id>_<timestamp>" string
AgentKey(agent_id) == [kind |-> "agent", id |-> agent_id]
ScheduleKey(n) == [kind |-> "schedule", id |-> n]

\* variant: a child's row names itself as its parent
create_agent_execution_own_parent(rows, parent_agent_id, call_mode, project_dir) ==
  Append(rows, [parent_agent_id |-> IF parent_agent_id = 0 THEN 0
                                    ELSE Len(rows) + 1,
                call_mode |-> call_mode,
                project_dir |-> project_dir, current_state |-> "generating",
                completed_at |-> NULL])

\* INSERT INTO agent_executions; parent_agent_id 0 stands for NULL
create_agent_execution(rows, parent_agent_id, call_mode, project_dir) ==
  Append(rows, [parent_agent_id |-> parent_agent_id, call_mode |-> call_mode,
                project_dir |-> project_dir, current_state |-> "generating",
                completed_at |-> NULL])

\* asyncio.create_task: owner is the run whose TaskManager holds the task
\* (0 for the task of a root run)
create_task(hs, owner, kind) ==
  Append(hs, [state |-> "active", owner |-> owner, kind |-> kind])

\* the Agent object in memory; covered is history, not program state: a
\* stop of a tree that contains the run has returned
NewRun(rs, handle, covered) ==
  Append(rs, [handle |-> handle, phase |-> "loop", covered |-> covered])

\* task.cancel() on each task of hset that is not done
cancel(hs, hset) ==
  [h \in DOMAIN hs |->
     IF h \in hset /\ hs[h].state = "active"
     THEN [hs[h] EXCEPT !.state = "cancel_pending"]
     ELSE hs[h]]

Unfinished(r) == runs[r].phase # "finished"

\* r is the frame its task is executing: no synchronous child of r is running
Innermost(r) ==
  \A c \in DOMAIN runs :
     (executions[c].parent_agent_id = r /\ runs[c].handle = runs[r].handle)
       => ~Unfinished(c)

\* r is in its main loop and its task has not been cancelled
CanAct(r) ==
  /\ runs[r].phase = "loop"
  /\ handles[runs[r].handle].state = "active"
  /\ Innermost(r)

\* the bottom frame of an asyncio task: a root run or an asynchronous child
IsTaskBase(r) ==
  executions[r].parent_agent_id = 0 \/ executions[r].call_mode = "asynchronous"

ScheduleKeyCount == Cardinality({r \in DOMAIN handles : handles[r].kind = "scheduled"})

\* a run was created: a stop call that follows is not a repetition
ForgetOp == [last_op EXCEPT !.op = "none", !.root = 0, !.project = ""]

\* ---- starting runs ----------------------------------------------------------

\* POST /agents/run: create_agent, create_task(run_and_cleanup), _track_task
run_agent(project) ==
  /\ Len(executions) < MaxRuns
  /\ executions' = create_agent_execution(executions, 0, "synchronous", project)
  /\ handles' = create_task(handles, 0, "interactive")
  /\ runs' = NewRun(runs, Len(handles) + 1, FALSE)
  /\ running_tasks' = running_tasks \cup
        {[key |-> AgentKey(Len(executions) + 1), handle |-> Len(handles) + 1]}
  /\ last_op' = ForgetOp
  /\ UNCHANGED <<store_clock, run_vars, sched_vars>>

\* AgentScheduler._trigger_agent_run: the task is tracked under a synthetic key
trigger_agent_run(project) ==
  /\ Len(executions) < MaxRuns
  /\ executions' = create_agent_execution(executions, 0, "synchronous", project)
  /\ handles' = create_task(handles, 0, "scheduled")
  /\ runs' = NewRun(runs, Len(handles) + 1, FALSE)
  /\ running_tasks' = running_tasks \cup
        {[key |-> ScheduleKey(ScheduleKeyCount + 1), handle |-> Len(handles) + 1]}
  /\ last_op' = ForgetOp
  /\ UNCHANGED <<store_clock, run_vars, sched_vars>>

\* ---- the steps of a run -----------------------------------------------------

\* handle_iteration: update_agent_state('generating') and the LLM call
RunLLM(r) ==
  /\ CanAct(r)
  /\ executions' = [executions EXCEPT ![r] = update_agent_state(@, "generating")]
  /\ UNCHANGED <<running_tasks, handles, runs, last_op, store_clock, run_vars,
                 sched_vars>>

\* _execute_tool, sub-agent branch of a synchronous call: the child's row is
\* created and the child runs inside the parent's asyncio task
SpawnSyncChild(r) ==
  /\ CanAct(r)
  /\ Len(executions) < MaxRuns
  /\ executions' =
       create_agent_execution(
         [executions EXCEPT ![r] = update_agent_state(@, "executing_tool")],
         r, "synchronous", executions[r].project_dir)
  /\ runs' = NewRun(runs, runs[r].handle, runs[r].covered)
  /\ last_op' = ForgetOp
  /\ UNCHANGED <<running_tasks, handles, store_clock, run_vars, sched_vars>>

\* TaskManager.launch_task of a sub-agent call: the child runs in a task of
\* its own, held by the parent's TaskManager only
SpawnAsyncChild(r) ==
  /\ CanAct(r)
  /\ Len(executions) < MaxRuns
  /\ executions' =
       create_agent_execution(
         [executions EXCEPT ![r] = update_agent_state(@, "executing_tool")],
         r, "asynchronous", executions[r].project_dir)
  /\ handles' = create_task(handles, r, "agent")
  /\ runs' = NewRun(runs, Len(handles) + 1, runs[r].covered)
  /\ last_op' = ForgetOp
  /\ UNCHANGED <<running_tasks, store_clock, run_vars, sched_vars>>

OwnedTasks(r) == {h \in DOMAIN handles : handles[h].owner = r}

\* _untrack_task of the finished task: run_and_cleanup's finally, or the
\* scheduler's cleanup_callback
untrack(tracked, h) == {t \in tracked : t.handle # h}

\* variant: the finally block runs without the gather of the run's tasks
FinishRun_without_gather(r) ==
  /\ CanAct(r)
  /\ executions' = [executions EXCEPT ![r] = complete_agent_execution(@, store_clock)]
  /\ runs' = [runs EXCEPT ![r].phase = "finished"]
  /\ IF IsTaskBase(r)
     THEN /\ handles' = [handles EXCEPT ![runs[r].handle].state = "done"]
          /\ running_tasks' = untrack(running_tasks, runs[r].handle)
     ELSE UNCHANGED <<handles, running_tasks>>
  /\ UNCHANGED <<last_op, store_clock, run_vars, sched_vars>>

\* the loop of run() is left, wait_for_remaining_tasks has gathered the
\* run's tasks, the finally block runs and the task ends
FinishRun(r) ==
  /\ CanAct(r)
  /\ \A h \in OwnedTasks(r) : handles[h].state = "done"
  /\ executions' = [executions EXCEPT ![r] = complete_agent_execution(@, store_clock)]
  /\ runs' = [runs EXCEPT ![r].phase = "finished"]
  /\ IF IsTaskBase(r)
     THEN /\ handles' = [handles EXCEPT ![runs[r].handle].state = "done"]
          /\ running_tasks' = untrack(running_tasks, runs[r].handle)
     ELSE UNCHANGED <<handles, running_tasks>>
  /\ UNCHANGED <<last_op, store_clock, run_vars, sched_vars>>

\* the frames of task h, all unwound by one CancelledError
Frames(h) == {x \in DOMAIN runs : runs[x].handle = h /\ Unfinished(x)}

\* CancelledError is raised in task h at its await: every frame runs its
\* finally block (complete_agent_execution).  in_gather: the await was the
\* asyncio.gather of wait_for_remaining_tasks, which cancels the gathered tasks
DeliverCancelTo(h, in_gather) ==
  /\ handles[h].state = "cancel_pending"
  /\ executions' =
       [x \in DOMAIN executions |->
          IF x \in Frames(h)
          THEN complete_agent_execution(executions[x], store_clock)
          ELSE executions[x]]
  /\ runs' = [x \in DOMAIN runs |->
                IF x \in Frames(h) THEN [runs[x] EXCEPT !.phase = "finished"]
                ELSE runs[x]]
  /\ handles' =
       [cancel(handles,
               IF in_gather
               THEN UNION {OwnedTasks(x) : x \in {y \in Frames(h) : Innermost(y)}}
               ELSE {})
          EXCEPT ![h].state = "done"]
  /\ running_tasks' = untrack(running_tasks, h)
  /\ UNCHANGED <<last_op, store_clock, run_vars, sched_vars>>

\* ---- the stop endpoints -----------------------------------------------------

\* mutant: only the root and its direct children
get_all_descendants_direct(agent_id, rows) ==
  {agent_id} \cup {e \in DOMAIN rows : rows[e].parent_agent_id = agent_id}

RECURSIVE get_all_descendants(_, _)
get_all_descendants(agent_id, rows) ==
  LET children == {e \in DOMAIN rows : rows[e].parent_agent_id = agent_id}
  IN {agent_id} \cup UNION {get_all_descendants(c, rows) : c \in children}

\* mutant: every selected row is completed again, completed_at set or not
complete_running_all(rows, ids, t) ==
  [x \in DOMAIN rows |->
     IF x \in ids THEN complete_agent_execution(rows[x], t) ELSE rows[x]]

\* the loop "if exec_info['completed_at'] is None: complete_agent_execution"
\* over the selected rows
complete_running(rows, ids, t) ==
  [x \in DOMAIN rows |->
     IF x \in ids /\ rows[x].completed_at = NULL
     THEN complete_agent_execution(rows[x], t)
     ELSE rows[x]]

\* the record of a stop call; rep: it repeats the call before it and no run
\* was created in between
StopOp(op, root, project) ==
  [op |-> op, root |-> root, project |-> project, n |-> last_op.n + 1,
   rep |-> (last_op.op = op /\ last_op.root = root /\ last_op.project = project)]

\* POST /agents/stop/{root_id}
stop_agents_by_root(root_id) ==
  LET tree_agent_ids == get_all_descendants(root_id, executions)
      cancelled == {t \in running_tasks :
                      /\ t.key.kind = "agent"
                      /\ t.key.id \in tree_agent_ids
                      /\ handles[t.handle].state # "done"}
      stopped_ids == {t.key.id : t \in cancelled} \cup
                     {x \in tree_agent_ids \cap DOMAIN executions :
                        executions[x].completed_at = NULL}
  IN /\ last_op.n < MaxStops
     /\ handles' = cancel(handles, {t.handle : t \in cancelled})
     /\ executions' = complete_running(executions, tree_agent_ids, store_clock)
     /\ running_tasks' =
          {t \in running_tasks :
             ~(t.key.kind = "agent" /\ t.key.id \in stopped_ids)}
     /\ runs' = [x \in DOMAIN runs |->
                   IF x \in tree_agent_ids
                   THEN [runs[x] EXCEPT !.covered = TRUE] ELSE runs[x]]
     /\ last_op' = StopOp("stop_tree", root_id, "")
     /\ store_clock' = store_clock + 1
     /\ UNCHANGED <<run_vars, sched_vars>>

\* POST /agents/stop-all?project=...
stop_all_agents(project) ==
  LET cancelled == {t \in running_tasks : handles[t.handle].state # "done"}
      in_project == {x \in DOMAIN executions : executions[x].project_dir = project}
  IN /\ last_op.n < MaxStops
     /\ handles' = cancel(handles, {t.handle : t \in cancelled})
     /\ executions' = complete_running(executions, in_project, store_clock)
     /\ running_tasks' = {}
     /\ last_op' = StopOp("stop_all", 0, project)
     /\ store_clock' = store_clock + 1
     /\ UNCHANGED <<runs, run_vars, sched_vars>>

NextStore ==
  \/ \E project \in Projects : run_agent(project)
  \/ \E project \in Projects : trigger_agent_run(project)
  \/ \E r \in DOMAIN runs : RunLLM(r)
  \/ \E r \in DOMAIN runs : SpawnSyncChild(r)
  \/ \E r \in DOMAIN runs : SpawnAsyncChild(r)
  \/ \E r \in DOMAIN runs : FinishRun(r)
  \/ \E h \in DOMAIN handles : \E in_gather \in BOOLEAN : DeliverCancelTo(h, in_gather)
  \/ \E root_id \in DOMAIN executions : stop_agents_by_root(root_id)
  \/ \E project \in Projects : stop_all_agents(project)

SpecStore == Init /\ [][NextStore]_vars

-----------------------------------------------------------------------------
(* Properties of the execution tree (specification SpecStore) *)

\* x is r, or the parent_agent_id chain of x reaches r
RECURSIVE ReachesByParents(_, _, _)
ReachesByParents(x, r, rows) ==
  \/ x = r
  \/ /\ rows[x].parent_agent_id # 0
     /\ ReachesByParents(rows[x].parent_agent_id, r, rows)

\* this step is a call of stop_agents_by_root, from entry to return
StopTreeReturns == last_op'.n = last_op.n + 1 /\ last_op'.op = "stop_tree"

\* this step is a call of stop_all_agents that repeats the stop call before
\* it, no run having been created in between
StopAllRepeated ==
  /\ last_op'.n = last_op.n + 1
  /\ last_op'.op = "stop_all"
  /\ last_op'.rep

\* C7: when stop_agents_by_root(r) returns, every row that is r or whose
\* parent chain reaches r has completed_at set, and every other row is
\* exactly as before the call and the task hosting it was not cancelled.
C7_StopTreeMarksExactlySubtree ==
  [][StopTreeReturns =>
       \A x \in DOMAIN executions :
          IF ReachesByParents(x, last_op'.root, executions)
          THEN executions'[x].completed_at # NULL
          ELSE /\ executions'[x] = executions[x]
               /\ handles'[runs[x].handle] = handles[runs[x].handle]]_vars

\* a stop of a tree has marked a running child of its root, while a run
\* outside the tree is still running and unmarked
C7_Witness ==
  /\ last_op.op = "stop_tree"
  /\ \E x \in DOMAIN executions :
        /\ x # last_op.root
        /\ ReachesByParents(x, last_op.root, executions)
        /\ Unfinished(x)
        /\ executions[x].completed_at = Some(store_clock - 1)
  /\ \E y \in DOMAIN executions :
        /\ ~ReachesByParents(y, last_op.root, executions)
        /\ executions[y].completed_at = NULL
        /\ handles[runs[y].handle].state = "active"

\* C8: when stop_agents_by_root(r) returns, the task of every unfinished run
\* of r's subtree is cancelled, and a run covered by such a stop never again
\* calls the LLM or spawns a child.
C8_StopTreeSilencesSubtree ==
  [][/\ StopTreeReturns =>
          \A x \in DOMAIN runs :
             (ReachesByParents(x, last_op'.root, executions) /\ Unfinished(x))
               => handles'[runs[x].handle].state # "active"
     /\ \A r \in DOMAIN runs :
          runs[r].covered =>
             ~(RunLLM(r) \/ SpawnSyncChild(r) \/ SpawnAsyncChild(r))]_vars

\* C9: a stop_all_agents(P) that repeats stop_all_agents(P), no run having
\* been created in between, changes no row of the store, no entry of
\* _running_tasks and cancels no task.
C9_StopAllIdempotent ==
  [][StopAllRepeated =>
       /\ executions' = executions
       /\ running_tasks' = running_tasks
       /\ handles' = handles]_vars

\* the second of two stop_all_agents(P) has returned; the first one cancelled
\* a task and marked its run, whose finally block has not run yet
C9_Witness ==
  /\ last_op.op = "stop_all"
  /\ last_op.rep
  /\ \E x \in DOMAIN executions :
        /\ executions[x].project_dir = last_op.project
        /\ executions[x].completed_at = Some(store_clock - 2)
        /\ Unfinished(x)
        /\ handles[runs[x].handle].state = "cancel_pending"

-----------------------------------------------------------------------------
(* The schedules table and AgentScheduler (specification SpecSched).  Times
   are whole minutes.  datetime.now() is read more than once inside one
   call; "later" says whether the clock moved between two such reads. *)

MaxSchedules == 1     \* schedules rows created in one behaviour
MaxWall == 3          \* minutes the wall clock advances in one behaviour

MinutesPerHour == 60
MinutesPerWeek == 10080

ScheduleTypes == {"minutes", "hours", "weeks"}

\* interval_value: Field(..., ge=1)
IntervalValues == {1, 2}

StartFroms == {NULL, Some(1), Some(2)}

\* the timedelta of a schedule, in minutes
timedelta(schedule_type, interval_value) ==
  IF schedule_type = "minutes" THEN interval_value
  ELSE IF schedule_type = "hours" THEN MinutesPerHour * interval_value
  ELSE MinutesPerWeek * interval_value

\* variant: "while next_run <= now: next_run += delta"
RECURSIVE first_occurrence_after_now(_, _, _, _)
first_occurrence_after_now(next_run, delta, clock, later) ==
  IF next_run <= clock
  THEN first_occurrence_after_now(next_run + delta, delta, clock, later)
  ELSE next_run

\* "while next_run < now: next_run += delta", now read at clock (+ later)
RECURSIVE first_occurrence(_, _, _, _)
first_occurrence(next_run, delta, clock, later) ==
  IF next_run < clock \/ (next_run = clock /\ later)
  THEN first_occurrence(next_run + delta, delta, clock, later)
  ELSE next_run

\* mutant: the last run is ignored, the next run is counted from the anchor
calculate_next_run_from_anchor(schedule_type, interval_value, start_from, last_run_at, created_at, clock, later) ==
  first_occurrence(IF start_from # NULL THEN start_from[1] ELSE created_at,
                   timedelta(schedule_type, interval_value), clock, later)

calculate_next_run(schedule_type, interval_value, start_from, last_run_at, created_at, clock, later) ==
  LET delta == timedelta(schedule_type, interval_value)
      anchor == IF start_from # NULL THEN start_from[1] ELSE created_at
  IN IF last_run_at # NULL
     THEN last_run_at[1] + delta
     ELSE first_occurrence(anchor, delta, clock, later)

\* what a _calculate_next_run call without last_run_at saw and returned
Calculated(schedule_type, interval_value, start_from, created_at, clock, later) ==
  [made |-> TRUE,
   anchor |-> IF start_from # NULL THEN start_from[1] ELSE created_at,
   delta |-> timedelta(schedule_type, interval_value),
   clock |-> clock,
   later |-> later,
   result |-> calculate_next_run(schedule_type, interval_value, start_from, NULL,
                                 created_at, clock, later)]

\* INSERT INTO schedules
create_schedule(schedule_type, interval_value, start_from, enabled, later) ==
  /\ schedules' =
       Append(schedules,
              [schedule_type |-> schedule_type,
               interval_value |-> interval_value,
               start_from |-> start_from,
               enabled |-> enabled,
               last_run_at |-> NULL,
               next_run_at |-> calculate_next_run(schedule_type, interval_value,
                                                  start_from, NULL, wall, wall, later),
               created_at |-> wall,
               updated_at |-> wall])
  /\ calc' = Calculated(schedule_type, interval_value, start_from, wall, wall, later)
  /\ UNCHANGED <<wall, fired, run_vars, store_vars>>

\* the fields of an UpdateScheduleRequest; NULL is a field left out
\* (model_dump(exclude_none=True))
NoUpdate ==
  [schedule_type |-> NULL, interval_value |-> NULL, start_from |-> NULL,
   enabled |-> NULL]

Updates ==
  {[NoUpdate EXCEPT !.enabled = Some(b)] : b \in BOOLEAN}
  \cup {[NoUpdate EXCEPT !.schedule_type = Some(t)] : t \in ScheduleTypes}
  \cup {[NoUpdate EXCEPT !.interval_value = Some(k)] : k \in IntervalValues}
  \cup {[NoUpdate EXCEPT !.start_from = s] : s \in StartFroms \ {NULL}}

\* updates.get(field, current[field])
Get(update, current) == IF update # NULL THEN update[1] ELSE current

update_schedule(schedule_id, updates, later) ==
  LET current == schedules[schedule_id]
      timing_changed == \/ updates.schedule_type # NULL
                        \/ updates.interval_value # NULL
                        \/ updates.start_from # NULL
      schedule_type == Get(updates.schedule_type, current.schedule_type)
      interval_value == Get(updates.interval_value, current.interval_value)
      start_from == IF updates.start_from # NULL THEN updates.start_from
                    ELSE current.start_from
  IN /\ schedules' =
          [schedules EXCEPT ![schedule_id] =
             [current EXCEPT
                !.schedule_type = schedule_type,
                !.interval_value = interval_value,
                !.start_from = start_from,
                !.enabled = Get(updates.enabled, current.enabled),
                !.next_run_at =
                   IF timing_changed
                   THEN calculate_next_run(schedule_type, interval_value, start_from,
                                           current.last_run_at, current.created_at,
                                           wall, later)
                   ELSE current.next_run_at,
                !.updated_at = wall]]
     /\ calc' = IF timing_changed /\ current.last_run_at = NULL
                THEN Calculated(schedule_type, interval_value, start_from,
                                current.created_at, wall, later)
                ELSE calc
     /\ UNCHANGED <<wall, fired, run_vars, store_vars>>

\* variant: WHERE next_run_at <= now
IsDue_ignoring_enabled(row, clock) == row.next_run_at <= clock

\* WHERE enabled = 1 AND next_run_at <= now
IsDue(row, clock) == row.enabled /\ row.next_run_at <= clock

\* ORDER BY next_run_at ASC (rows of equal next_run_at in rowid order)
RECURSIVE OrderByNextRun(_, _)
OrderByNextRun(rows, ids) ==
  IF ids = {} THEN <<>>
  ELSE LET first == CHOOSE i \in ids :
                      \A j \in ids :
                         \/ rows[i].next_run_at < rows[j].next_run_at
                         \/ (rows[i].next_run_at = rows[j].next_run_at /\ i <= j)
       IN <<first>> \o OrderByNextRun(rows, ids \ {first})

get_due_schedules(rows, clock) ==
  OrderByNextRun(rows, {i \in DOMAIN rows : IsDue(rows[i], clock)})

\* variant: the next run is one interval after the run that was scheduled,
\* not after the run that took place
mark_schedule_run_from_schedule(row, clock) ==
  [row EXCEPT
     !.last_run_at = Some(clock),
     !.next_run_at = row.next_run_at
                       + timedelta(row.schedule_type, row.interval_value),
     !.updated_at = clock]

\* UPDATE schedules SET last_run_at = now, next_run_at = ..., updated_at = now
mark_schedule_run(row, clock) ==
  [row EXCEPT
     !.last_run_at = Some(clock),
     !.next_run_at = calculate_next_run(row.schedule_type, row.interval_value,
                                        row.start_from, Some(clock), row.created_at,
                                        clock, FALSE),
     !.updated_at = clock]

\* variant: a schedule whose trigger raised is not marked
check_and_run_due_schedules_unmarked_on_failure(failing) ==
  LET due_schedules == get_due_schedules(schedules, wall)
  IN /\ due_schedules # <<>>
     /\ failing \subseteq Range(due_schedules)
     /\ fired' = fired \o
          [k \in 1..Len(due_schedules) |->
             [schedule_id |-> due_schedules[k], at |-> wall,
              ok |-> due_schedules[k] \notin failing]]
     /\ schedules' =
          [i \in DOMAIN schedules |->
             IF i \in Range(due_schedules) \ failing
             THEN mark_schedule_run(schedules[i], wall)
             ELSE schedules[i]]
     /\ UNCHANGED <<wall, calc, run_vars, store_vars>>

\* AgentScheduler._check_and_run_due_schedules: every due schedule is
\* triggered and then marked, also when the trigger raised (failing)
check_and_run_due_schedules(failing) ==
  LET due_schedules == get_due_schedules(schedules, wall)
  IN /\ due_schedules # <<>>
     /\ failing \subseteq Range(due_schedules)
     /\ fired' = fired \o
          [k \in 1..Len(due_schedules) |->
             [schedule_id |-> due_schedules[k], at |-> wall,
              ok |-> due_schedules[k] \notin failing]]
     /\ schedules' =
          [i \in DOMAIN schedules |->
             IF i \in Range(due_schedules)
             THEN mark_schedule_run(schedules[i], wall)
             ELSE schedules[i]]
     /\ UNCHANGED <<wall, calc, run_vars, store_vars>>

\* a minute passes
Tick ==
  /\ wall < MaxWall
  /\ wall' = wall + 1
  /\ UNCHANGED <<schedules, fired, calc, run_vars, store_vars>>

NextSched ==
  \/ \E schedule_type \in ScheduleTypes, interval_value \in IntervalValues,
        start_from \in StartFroms, enabled \in BOOLEAN, later \in BOOLEAN :
        /\ Len(schedules) < MaxSchedules
        /\ create_schedule(schedule_type, interval_value, start_from, enabled, later)
  \/ \E schedule_id \in DOMAIN schedules, updates \in Updates, later \in BOOLEAN :
        update_schedule(schedule_id, updates, later)
  \/ \E failing \in SUBSET DOMAIN schedules : check_and_run_due_schedules(failing)
  \/ Tick

SpecSched == Init /\ [][NextSched]_vars

-----------------------------------------------------------------------------
(* Properties of the schedules (specification SpecSched) *)

\* the schedules marked run by this step: those of the triggers it logged
MarkedNow == {fired'[k].schedule_id : k \in (Len(fired) + 1)..Len(fired')}

UnitOfKind == [minutes |-> 1, hours |-> MinutesPerHour, weeks |-> MinutesPerWeek]

\* C10: a schedule marked run at time now has last_run_at = now and
\* next_run_at = now + interval_value * unit of its schedule_type, whatever its
\* next_run_at, last_run_at and start_from were before.
C10_MarkRunSetsNowPlusDelta ==
  [][\A i \in MarkedNow :
        /\ schedules'[i].last_run_at = Some(wall)
        /\ schedules'[i].next_run_at =
             wall + schedules[i].interval_value * UnitOfKind[schedules[i].schedule_type]]_vars

\* a schedule with a start_from, marked run for the second time: its
\* last_run_at was set before, and it was last marked this minute
C10_Witness ==
  \E i \in DOMAIN schedules :
     /\ schedules[i].start_from # NULL
     /\ Cardinality({k \in DOMAIN fired : fired[k].schedule_id = i}) >= 2
     /\ fired[Len(fired)] = [schedule_id |-> i, at |-> wall, ok |-> TRUE]
     /\ schedules[i].last_run_at = Some(wall)
     /\ schedules[i].next_run_at = wall + timedelta(schedules[i].schedule_type,
                                                    schedules[i].interval_value)

-----------------------------------------------------------------------------
(* Properties of one AgentRun, continued (specification Spec) *)

\* the launched tasks whose completion message is not in the conversation
OutstandingIds == {id \in DOMAIN tasks : TaskCompletedAt(id) = {}}

\* _process_tool_calls is about to handle the end_session of a turn that
\* also had asynchronous calls
EndSessionAfterAsync ==
  pc = "post" /\ end_session_call # NULL /\ async_calls # <<>>

\* what every step out of EndSessionAfterAsync does, apart from the names in
\* the warning
RejectedAfterLaunch ==
  /\ Len(launched_task_ids) = Len(async_calls)
  /\ Range(launched_task_ids) \subseteq DOMAIN tasks
  /\ launched_count = Cardinality(DOMAIN tasks)
  /\ Len(messages') = Len(messages) + 1
  /\ messages'[Len(messages')].kind = "end_session_warning"
  /\ messages'[Len(messages')].role = "system"
  /\ messages'[Len(messages')].idx = Cardinality(OutstandingIds)
  /\ run_row'.current_state = "waiting"
  /\ tool_executions' = tool_executions
  /\ ~session_ended' /\ ~llm_should_continue'
  /\ pc' = "wait"

\* C11 as stated: the turn's asynchronous calls are launched, the end_session
\* is rejected with a warning that names the outstanding tasks (all of them),
\* the state becomes waiting, end_session is not executed and the session
\* does not end.
C11_RejectNamesOutstanding ==
  [][EndSessionAfterAsync =>
       /\ RejectedAfterLaunch
       /\ Range(messages'[Len(messages')].ids) = OutstandingIds]_vars

\* C11 amended: as above, but the warning carries the count of all
\* outstanding tasks and names the tasks still running, which include every
\* task launched in this turn.
C11_RejectNamesRunning ==
  [][EndSessionAfterAsync =>
       /\ RejectedAfterLaunch
       /\ Range(messages'[Len(messages')].ids) = Range(pending_tasks)
       /\ Range(launched_task_ids) \subseteq Range(messages'[Len(messages')].ids)
       /\ Range(messages'[Len(messages')].ids) \subseteq OutstandingIds]_vars

\* an end_session was just rejected in a turn that launched a task, while the
\* result of an earlier task waits in the queue: counted, not named
C11_Witness ==
  /\ pc = "wait"
  /\ launched_task_ids # <<>>
  /\ end_session_call # NULL
  /\ messages[Len(messages)].kind = "end_session_warning"
  /\ messages[Len(messages)].turn = iterations
  /\ Len(messages[Len(messages)].ids) < messages[Len(messages)].idx
  /\ completed_results # <<>>

\* ---- the run left alone (specification SpecLive) --------------------------

\* Next without the stop endpoints and without a failing store: what the run
\* and its tasks do by themselves
NextLive ==
  \/ IterationStart
  \/ LoopExit
  \/ \E resp \in Responses : LLMReturn(resp)
  \/ SyncUnauthorized
  \/ SyncDispatch
  \/ SyncNotFound
  \/ \E outcome \in ToolOutcomes : SyncReturn(outcome)
  \/ LaunchAsyncCalls
  \/ EndSessionReject
  \/ EndSessionAccept
  \/ EndSessionReturn
  \/ FinishTurn
  \/ WaitTakeQueued
  \/ WaitBlock
  \/ WaitPoll
  \/ WaitSkip
  \/ BlockGet
  \/ PollEnd
  \/ RemainingGather
  \/ GatherDone
  \/ RemainingNone
  \/ DrainRemaining
  \/ Finalize
  \/ \E id \in DOMAIN tasks : TaskStart(id)
  \/ \E id \in DOMAIN tasks : \E outcome \in ToolOutcomes : TaskComplete(id, outcome)

\* the event loop runs whatever is ready: the LLM call returns, every tool
\* returns or raises, a resumable coroutine is resumed
SpecLive == Init /\ [][NextLive]_vars /\ WF_vars(NextLive)

\* an end_session was rejected in turn t
RejectedIn(t) ==
  \E k \in DOMAIN messages :
     messages[k].kind = "end_session_warning" /\ messages[k].turn = t

\* a task-completion message stands after the warning of turn t
CompletionAfterRejection(t) ==
  \E k \in DOMAIN messages : \E j \in DOMAIN messages :
     /\ messages[k].kind = "end_session_warning" /\ messages[k].turn = t
     /\ j > k
     /\ messages[j].kind = "task_completed"

\* C12 as stated: a run that has ended had, after each rejection, every
\* result appended as a task-completion message and a further LLM turn.
C12_RejectionAlwaysResumed ==
  pc = "done" =>
     \A t \in 1..MaxIterations :
        RejectedIn(t) => (iterations > t /\ OutstandingIds = {})

\* C12 amended: after a rejection in a turn that is not the last one
\* max_iterations allows, a result is eventually appended as a task-completion
\* message and the LLM is invoked again; every run ends, with every result
\* dequeued; and an end_session met with nothing outstanding is accepted.
C12_RejectionResumesBelowLimit ==
  /\ \A t \in 1..(MaxIterations - 1) :
        (RejectedIn(t) /\ iterations = t)
          ~> (iterations = t + 1 /\ CompletionAfterRejection(t))
  /\ <>(pc = "done" /\ launched_count = processed_count)
  /\ [][(pc = "post" /\ end_session_call # NULL /\ ~has_outstanding_tasks)
          => pc' = "end_exec"]_vars

\* a run that ended by an accepted end_session after an earlier rejection
C12_Witness ==
  /\ pc = "done"
  /\ session_ended
  /\ RejectedIn(1)
  /\ CompletionAfterRejection(1)
  /\ iterations = 2

\* ---- order of the conversation (specification Spec) -----------------------

\* a step of the main loop that takes a result off completed_results
DequeuesResult ==
  pc \in {"wait", "block", "poll"} /\ processed_count' = processed_count + 1

\* the messages of turn t that open it: assistant message and launch notice
TurnOpeners(t) ==
  {k \in DOMAIN messages :
     messages[k].turn = t /\ messages[k].kind \in {"assistant", "tasks_launched"}}

\* C13: each result the main loop dequeues is the head of completed_results
\* and its task-completion message becomes the last message of the
\* conversation, so the messages stand in dequeue order whatever the launch
\* order was; and a task's completion message stands after the assistant
\* message and the launch notice of the turn that launched it.
C13_CompletionsInDequeueOrder ==
  /\ [][(DequeuesResult /\ ~session_ended) =>
          /\ completed_results' = Tail(completed_results)
          /\ Len(messages') = Len(messages) + 1
          /\ SubSeq(messages', 1, Len(messages)) = messages
          /\ messages'[Len(messages')].kind = "task_completed"
          /\ messages'[Len(messages')].ids = <<Head(completed_results)[1]>>
          /\ messages'[Len(messages')].result = Head(completed_results)[2]]_vars
  /\ [](\A id \in DOMAIN tasks : \A i \in TaskCompletedAt(id) :
          \A k \in TurnOpeners(tasks[id].turn) : k < i)

\* two tasks of one turn reported in the reverse of their launch order, below
\* that turn's launch notice
C13_Witness ==
  \E a \in DOMAIN tasks : \E b \in DOMAIN tasks :
     /\ tasks[a].turn = tasks[b].turn
     /\ a[2] < b[2]
     /\ \E i \in TaskCompletedAt(a) : \E j \in TaskCompletedAt(b) : j < i
     /\ \E k \in TurnOpeners(tasks[a].turn) : messages[k].kind = "tasks_launched"

-----------------------------------------------------------------------------
(* Several schedules due in one pass of the scheduler (specification
   SpecDue): schedules counted in minutes, created, enabled and disabled
   through the API while the scheduler loop runs. *)

MaxDue == 2           \* schedules rows created in one behaviour of SpecDue
MaxFired == 2         \* triggers logged before the last pass of SpecDue

\* PUT /schedules/{id}/toggle style update: only `enabled` is sent
SetEnabled(b) == [NoUpdate EXCEPT !.enabled = Some(b)]

NextDue ==
  \/ \E interval_value \in IntervalValues, start_from \in StartFroms,
        enabled \in BOOLEAN, later \in BOOLEAN :
        /\ Len(schedules) < MaxDue
        /\ create_schedule("minutes", interval_value, start_from, enabled, later)
  \/ \E schedule_id \in DOMAIN schedules, b \in BOOLEAN :
        update_schedule(schedule_id, SetEnabled(b), FALSE)
  \/ \E failing \in SUBSET DOMAIN schedules :
        /\ Len(fired) < MaxFired
        /\ check_and_run_due_schedules(failing)
  \/ Tick

SpecDue == Init /\ [][NextDue]_vars

\* the pass of the scheduler taken by this step: the triggers it logged
FiredNow == SubSeq(fired', Len(fired) + 1, Len(fired'))

\* C14: a pass of the scheduler triggers every due schedule once, in the
\* order of get_due_schedules, whether or not earlier triggers raised, and
\* leaves every due schedule marked run (last_run_at = now, next_run_at
\* after now) whether or not its own trigger raised; no other row changes.
C14_EveryDueScheduleMarked ==
  [][Len(fired') > Len(fired) =>
       LET due_schedules == get_due_schedules(schedules, wall)
       IN /\ Len(FiredNow) = Len(due_schedules)
          /\ \A k \in 1..Len(due_schedules) :
                /\ FiredNow[k].schedule_id = due_schedules[k]
                /\ FiredNow[k].at = wall
          /\ \A i \in Range(due_schedules) :
                /\ schedules'[i].last_run_at = Some(wall)
                /\ schedules'[i].next_run_at > wall
                /\ schedules[i].last_run_at # Some(wall)
          /\ \A i \in DOMAIN schedules \ Range(due_schedules) :
                schedules'[i] = schedules[i]]_vars

\* one pass triggered two schedules; the first trigger raised, the second
\* did not, and both schedules are marked run
C14_Witness ==
  \E k \in DOMAIN fired :
     /\ k + 1 \in DOMAIN fired
     /\ fired[k].at = fired[k + 1].at
     /\ fired[k].schedule_id # fired[k + 1].schedule_id
     /\ ~fired[k].ok
     /\ fired[k + 1].ok
     /\ schedules[fired[k].schedule_id].last_run_at = Some(fired[k].at)
     /\ schedules[fired[k + 1].schedule_id].last_run_at = Some(fired[k].at)
     /\ wall = fired[k].at

\* C15: every schedule a pass triggers was enabled with next_run_at <= now
\* when the pass began, so a disabled schedule and a schedule whose
\* next_run_at lies in the future are not triggered; and the schedules of one
\* pass are triggered in ascending order of next_run_at.
C15_FiresOnlyDueInOrder ==
  [][Len(fired') > Len(fired) =>
       /\ \A k \in DOMAIN FiredNow :
             /\ schedules[FiredNow[k].schedule_id].enabled
             /\ schedules[FiredNow[k].schedule_id].next_run_at <= wall
       /\ \A i \in DOMAIN schedules :
             (~schedules[i].enabled \/ schedules[i].next_run_at > wall)
                => (i \notin MarkedNow /\ schedules'[i] = schedules[i])
       /\ \A k \in DOMAIN FiredNow : \A l \in DOMAIN FiredNow :
             k < l => schedules[FiredNow[k].schedule_id].next_run_at
                        <= schedules[FiredNow[l].schedule_id].next_run_at]_vars

\* one pass triggered the schedule created second before the one created
\* first: its next_run_at was the earlier one
C15_Witness ==
  \E k \in DOMAIN fired :
     /\ k + 1 \in DOMAIN fired
     /\ fired[k].at = fired[k + 1].at
     /\ fired[k].schedule_id > fired[k + 1].schedule_id

-----------------------------------------------------------------------------
(* Properties of _calculate_next_run (specification SpecSched) *)

MaxSteps == 4         \* multiples of the interval the calculation may add

\* time x is not before the now read by the recorded call: the minute
\* `clock`, and a later instant of that minute when `later`
NotBeforeNow(x) == x > calc.clock \/ (x = calc.clock /\ ~calc.later)

\* C16: for a schedule that has never run the calculation returns
\* anchor + k * delta for the smallest k >= 0 with anchor + k * delta >= now
\* (anchor = start_from if set, created_at otherwise); so the result is not
\* before now, and it is the anchor when the anchor is not before now.
C16_FirstOccurrenceNotBeforeNow ==
  calc.made =>
    /\ \E k \in 0..MaxSteps :
          /\ calc.result = calc.anchor + k * calc.delta
          /\ NotBeforeNow(calc.anchor + k * calc.delta)
          /\ \A j \in 0..(k - 1) : ~NotBeforeNow(calc.anchor + j * calc.delta)
    /\ NotBeforeNow(calc.result)
    /\ NotBeforeNow(calc.anchor) => calc.result = calc.anchor

\* a calculation that had to add the interval twice to an anchor in the past
C16_Witness ==
  /\ calc.made
  /\ calc.result = calc.anchor + 2 * calc.delta
  /\ calc.anchor < calc.clock
  /\ \E i \in DOMAIN schedules :
        schedules[i].last_run_at = NULL /\ schedules[i].next_run_at = calc.result

-----------------------------------------------------------------------------
(* One schedule of five minutes, its scheduler passes up to a quarter of an
   hour later (specification SpecEveryFive). *)

MaxMinutes == 13      \* minutes the wall clock advances in SpecEveryFive

\* a minute passes
MinutePasses ==
  /\ wall < MaxMinutes
  /\ wall' = wall + 1
  /\ UNCHANGED <<schedules, fired, calc, run_vars, store_vars>>

NextEveryFive ==
  \/ \E later \in BOOLEAN :
        /\ schedules = <<>>
        /\ create_schedule("minutes", 5, NULL, TRUE, later)
  \/ \E failing \in SUBSET DOMAIN schedules : check_and_run_due_schedules(failing)
  \/ MinutePasses

SpecEveryFive == Init /\ [][NextEveryFive]_vars

\* C17: the schedule {minutes, 5, no start_from} created at T0 has
\* next_run_at = T0 + 5 as long as it has not run, and next_run_at = T0 + 17
\* once it has run at T0 + 12.
C17_FiveThenSeventeen ==
  \A i \in DOMAIN schedules :
     /\ schedules[i].last_run_at = NULL
          => schedules[i].next_run_at = schedules[i].created_at + 5
     /\ schedules[i].last_run_at = Some(schedules[i].created_at + 12)
          => schedules[i].next_run_at = schedules[i].created_at + 17

-----------------------------------------------------------------------------
(* Task ids of one AgentRun (specification Spec) *)

\* C18: every task id is <tool name>_<n>; the n of the tasks allocated so far
\* are exactly 1..N in allocation order whatever the tool names, the next n
\* is N + 1, and no two tasks of the run share an id or an n.
C18_TaskIdsNumberedFromOne ==
  /\ Cardinality(DOMAIN tasks) = launched_count
  /\ {id[2] : id \in DOMAIN tasks} = 1..launched_count
  /\ task_counter = launched_count + 1
  /\ \A id \in DOMAIN tasks : id[1] = tasks[id].blk.tool_name
  /\ \A a \in DOMAIN tasks : \A b \in DOMAIN tasks : a # b => a[2] # b[2]
  /\ \A a \in DOMAIN tasks : \A b \in DOMAIN tasks :
        (tasks[a].turn < tasks[b].turn) => a[2] < b[2]

\* three tasks, two of them of the same tool, numbered 1, 2, 3 across tools
C18_Witness ==
  \E a \in DOMAIN tasks : \E b \in DOMAIN tasks : \E c \in DOMAIN tasks :
     /\ a[2] = 1 /\ b[2] = 2 /\ c[2] = 3
     /\ a[1] = c[1]
     /\ a[1] # b[1]

\* the step that ends a first turn of two asynchronous calls and no
\* end_session
FirstTurnOfTwoAsync ==
  /\ pc = "post"
  /\ pc' = "wait"
  /\ iterations = 1
  /\ Len(async_calls) = 2
  /\ end_session_call = NULL

\* both calls of the turn are launched and a launch notice ends the
\* conversation
BothLaunchedAndNoticed ==
  /\ launched_count = 2
  /\ Cardinality(DOMAIN tasks) = 2
  /\ \A id \in DOMAIN tasks : tasks[id].state = "scheduled"
  /\ Len(messages') = Len(messages) + 1
  /\ messages'[Len(messages')].kind = "tasks_launched"
  /\ messages'[Len(messages')].role = "system"

\* C19 as stated: the notice of a first turn that launches x then y lists
\* x_1 and y_1.
C19_NoticeListsBothAsFirst ==
  [][FirstTurnOfTwoAsync =>
       /\ BothLaunchedAndNoticed
       /\ messages'[Len(messages')].ids =
            << <<async_calls[1].tool_name, 1>>, <<async_calls[2].tool_name, 1>> >>]_vars

\* C19 amended: the notice of a first turn that launches x then y lists x_1
\* and y_2, in the textual order of the calls.
C19_NoticeListsOneThenTwo ==
  [][FirstTurnOfTwoAsync =>
       /\ BothLaunchedAndNoticed
       /\ messages'[Len(messages')].ids =
            << <<async_calls[1].tool_name, 1>>, <<async_calls[2].tool_name, 2>> >>]_vars

\* the first turn launched two calls of different tools and its notice is the
\* last message
C19_Witness ==
  /\ pc = "wait"
  /\ iterations = 1
  /\ Len(launched_task_ids) = 2
  /\ launched_task_ids[1][1] # launched_task_ids[2][1]
  /\ messages[Len(messages)].kind = "tasks_launched"
  /\ messages[Len(messages)].turn = 1
  /\ Len(messages[Len(messages)].ids) = 2

\* the assistant message of turn t stands before position i
AssistantBefore(t, i) ==
  \E a \in DOMAIN messages :
     a < i /\ messages[a].kind = "assistant" /\ messages[a].turn = t

\* C20: every tool result and every launch notice stands after the assistant
\* message of its turn, and every task-completion message stands after the
\* assistant message of the turn that launched the task.
C20_AssistantMessageFirst ==
  /\ \A i \in DOMAIN messages :
        messages[i].kind \in {"tool_result", "tasks_launched"}
          => AssistantBefore(messages[i].turn, i)
  /\ \A id \in DOMAIN tasks : \A i \in TaskCompletedAt(id) :
        AssistantBefore(tasks[id].turn, i)

\* one turn produced a tool result, a launch notice and a task-completion
\* message
C20_Witness ==
  \E t \in 1..MaxIterations :
     /\ \E i \in DOMAIN messages :
           messages[i].kind = "tool_result" /\ messages[i].turn = t
     /\ \E i \in DOMAIN messages :
           messages[i].kind = "tasks_launched" /\ messages[i].turn = t
     /\ \E id \in DOMAIN tasks : tasks[id].turn = t /\ TaskCompletedAt(id) # {}

-----------------------------------------------------------------------------
(* Malformed and unauthorized calls, the transient message, the iteration
   limit (specification Spec) *)

\* positions of the messages of kind `kind` that turn t produced for block idx
MsgsOfBlock(kind, t, idx) ==
  {i \in DOMAIN messages :
     messages[i].kind = kind /\ messages[i].turn = t /\ messages[i].idx = idx}

\* rows of tool_executions that turn t created for block idx
RowsOfBlock(t, idx) ==
  {x \in DOMAIN tool_executions :
     tool_executions[x].turn = t /\ tool_executions[x].idx = idx}

\* tasks that turn t launched for block idx
TasksOfBlock(t, idx) ==
  {id \in DOMAIN tasks : tasks[id].turn = t /\ tasks[id].blk.idx = idx}

\* the synchronous calls are done and the asynchronous ones launched
TurnHandled == pc = "post"

\* C21: once the calls of a turn are handled, each malformed block has exactly
\* one parse-error user message naming its tool, and no tool result, no
\* tool_executions row and no task; each well-formed block has no parse-error
\* message, and exactly one tool result (synchronous) or one task launched
\* for it (asynchronous).
C21_OnlyMalformedBlocksDiagnosed ==
  TurnHandled =>
    \A k \in DOMAIN tool_calls :
       LET blk == tool_calls[k]
       IN IF blk.parse_error
          THEN /\ Cardinality(MsgsOfBlock("parse_error", iterations, blk.idx)) = 1
               /\ \A i \in MsgsOfBlock("parse_error", iterations, blk.idx) :
                     messages[i].role = "user" /\ messages[i].name = blk.tool_name
               /\ MsgsOfBlock("tool_result", iterations, blk.idx) = {}
               /\ RowsOfBlock(iterations, blk.idx) = {}
               /\ TasksOfBlock(iterations, blk.idx) = {}
          ELSE /\ MsgsOfBlock("parse_error", iterations, blk.idx) = {}
               /\ IsSyncCall(blk) =>
                    /\ Cardinality(MsgsOfBlock("tool_result", iterations, blk.idx)) = 1
                    /\ \A i \in MsgsOfBlock("tool_result", iterations, blk.idx) :
                          messages[i].name = blk.tool_name
                    /\ TasksOfBlock(iterations, blk.idx) = {}
               /\ IsAsyncCall(blk) =>
                    /\ Cardinality(TasksOfBlock(iterations, blk.idx)) = 1
                    /\ \A id \in TasksOfBlock(iterations, blk.idx) :
                          tasks[id].blk = blk /\ id \in Range(launched_task_ids)

\* a turn of three blocks is handled: the malformed one in the middle, a
\* synchronous call before it and an asynchronous call after it
C21_Witness ==
  /\ TurnHandled
  /\ Len(tool_calls) = 3
  /\ tool_calls[2].parse_error
  /\ IsSyncCall(tool_calls[1]) /\ ~tool_calls[1].parse_error
  /\ IsAsyncCall(tool_calls[3]) /\ ~tool_calls[3].parse_error
  /\ Len(launched_task_ids) = 1

\* positions of the transient pending-tasks messages
TransientMsgs == {i \in DOMAIN messages : messages[i].kind = "pending_tasks"}

\* the conversation as it was before the transient message was injected
BeforeInjection ==
  IF pending_tasks_msg THEN SubSeq(messages, 1, Len(messages) - 1) ELSE messages

\* C22: while the LLM is invoked the transient message, if injected, is the
\* last message and the only one of its kind; the step that ends the
\* invocation, by a response or by an exception, continues from exactly the
\* messages present before the injection; and outside the invocation the
\* conversation never holds a transient message.
C22_TransientMessageRemoved ==
  /\ [](pc = "llm" =>
          IF pending_tasks_msg
          THEN TransientMsgs = {Len(messages)}
          ELSE TransientMsgs = {})
  /\ [](pc # "llm" => TransientMsgs = {})
  /\ [][(pc = "llm" /\ pc' # "llm") =>
          /\ Len(messages') >= Len(BeforeInjection)
          /\ SubSeq(messages', 1, Len(BeforeInjection)) = BeforeInjection
          /\ \A i \in DOMAIN messages' : messages'[i].kind # "pending_tasks"
          /\ (pc' = "finally" => messages' = BeforeInjection)]_vars

\* the LLM call of the second turn has returned while a task of the first
\* turn was still running
C22_Witness ==
  /\ pc = "sync"
  /\ iterations = 2
  /\ \E id \in Range(pending_tasks) : tasks[id].turn = 1
  /\ messages[Len(messages)].kind = "assistant"
  /\ messages[Len(messages)].turn = 2

\* the name is in the agent's tools.txt or is the built-in end_session
Whitelisted(tool_name) == tool_name \in AllowedCallables \cup {END_SESSION_TOOL}

\* the control path is about to execute a synchronous call that is not
\* whitelisted
NextSyncCallRefused ==
  /\ pc = "sync"
  /\ sync_idx <= Len(sync_calls)
  /\ ~Whitelisted(sync_calls[sync_idx].tool_name)

\* C23: a call that is not whitelisted is never dispatched: no
\* tool_executions row is created for it and its task never runs a tool.  A
\* synchronous one gets the SECURITY ERROR text appended as its tool result
\* and the turn goes on with the next call; an asynchronous one gets the
\* SECURITY ERROR text as the result of its task.  Nothing is raised.
C23_UnauthorizedNeverDispatched ==
  /\ [](\A x \in DOMAIN tool_executions : Whitelisted(tool_executions[x].tool_name))
  /\ [](\A id \in DOMAIN tasks :
          ~Whitelisted(tasks[id].blk.tool_name) =>
             /\ tasks[id].state \in {"scheduled", "done"}
             /\ tasks[id].exec = 0
             /\ \A i \in QueuedAt(id) : completed_results[i][2] = "SECURITY ERROR"
             /\ \A i \in TaskCompletedAt(id) : messages[i].result = "SECURITY ERROR")
  /\ [][NextSyncCallRefused =>
          /\ Len(messages') = Len(messages) + 1
          /\ SubSeq(messages', 1, Len(messages)) = messages
          /\ messages'[Len(messages')].kind = "tool_result"
          /\ messages'[Len(messages')].name = sync_calls[sync_idx].tool_name
          /\ messages'[Len(messages')].idx = sync_calls[sync_idx].idx
          /\ messages'[Len(messages')].result = "SECURITY ERROR"
          /\ tool_executions' = tool_executions
          /\ run_row' = run_row
          /\ sync_idx' = sync_idx + 1
          /\ pc' = "sync"]_vars

\* the refusal of `shell` was fed back and the run went on to its next turn
C23_Witness ==
  /\ iterations = 2
  /\ pc = "llm"
  /\ \E i \in DOMAIN messages :
        /\ messages[i].kind = "tool_result"
        /\ messages[i].name = "shell"
        /\ messages[i].result = "SECURITY ERROR"
        /\ messages[i].turn = 1
  /\ tool_executions = <<>>

\* the well-formed synchronous calls of the turn, end_session apart
SyncBlocks == SelectSeq(tool_calls, LAMBDA b : ~b.parse_error /\ IsSyncCall(b))

\* _process_tool_calls has reached the end_session of a turn that also holds
\* synchronous calls
EndSessionAfterSync ==
  /\ pc = "post"
  /\ end_session_call # NULL
  /\ SyncBlocks # <<>>

\* C24: when the end_session of a turn is checked, every synchronous call of
\* the turn has its tool result in the conversation; the end_session is
\* accepted (its execution starts) exactly when launched - processed = 0 at
\* that moment, and is otherwise rejected with a warning as the next message.
C24_SyncCallsBeforeEndSessionCheck ==
  [][EndSessionAfterSync =>
       /\ \A k \in DOMAIN SyncBlocks :
             Cardinality(MsgsOfBlock("tool_result", iterations, SyncBlocks[k].idx)) = 1
       /\ (pc' = "end_exec") <=> (launched_count - processed_count = 0)
       /\ pc' \in {"end_exec", "wait"}
       /\ pc' = "end_exec" => messages' = messages
       /\ pc' = "wait" =>
            /\ messages'[Len(messages')].kind = "end_session_warning"
            /\ ~session_ended']_vars

\* an end_session written before a synchronous call is being executed after
\* that call's result was appended, in a run that had a task earlier
C24_Witness ==
  /\ pc = "end_exec"
  /\ Len(tool_calls) = 2
  /\ tool_calls[1].tool_name = END_SESSION_TOOL
  /\ launched_count = 1
  /\ messages[Len(messages)].kind = "tool_result"
  /\ messages[Len(messages)].turn = iterations

\* handle_iteration returns for a response without tool-call blocks
ReturnsWithoutToolCalls == pc = "llm" /\ pc' = "wait"

\* C25: a response with no tool-call block leaves the conversation as it was
\* before the call plus one system reminder, does not end the session and
\* asks for another generation; the turn has been counted, and every LLM
\* call is counted as one more iteration, up to MaxIterations.
C25_NoToolCallsReminderAndContinue ==
  /\ [][ReturnsWithoutToolCalls =>
          /\ tool_calls' = <<>>
          /\ Len(messages') = Len(BeforeInjection) + 1
          /\ SubSeq(messages', 1, Len(BeforeInjection)) = BeforeInjection
          /\ messages'[Len(messages')].kind = "no_tool_call_warning"
          /\ messages'[Len(messages')].role = "system"
          /\ ~session_ended'
          /\ llm_should_continue'
          /\ iterations' = iterations
          /\ iterations >= 1]_vars
  /\ [][(pc = "head" /\ pc' = "llm") => iterations' = iterations + 1]_vars
  /\ [](iterations <= MaxIterations)

\* a run whose every response had no tool call: it ended at the iteration
\* limit with one reminder per turn
C25_Witness ==
  /\ pc = "done"
  /\ iterations = MaxIterations
  /\ ~session_ended
  /\ Len(messages) = 2 + MaxIterations
  /\ \A i \in 3..Len(messages) : messages[i].kind = "no_tool_call_warning"

\* ---- C26 ------------------------------------------------------------------

\* the LLM call of a turn begins
InvokesLLM == pc # "llm" /\ pc' = "llm"

\* the loop test finds the limit used up and no end_session accepted
AtIterationLimit ==
  pc = "head" /\ iterations >= MaxIterations /\ ~session_ended

\* the finally block of run() is executed
Finalizes == pc = "finally" /\ pc' = "done"

\* run() is past its loop
PastLoop == pc \in {"remaining", "gather", "remaining_drain", "finally", "done"}

\* C26: every LLM call is counted by one increment of iterations, which
\* never passes max_iterations, so the LLM is called at most max_iterations
\* times; when the limit is used up with no end_session accepted the loop
\* exits, the response run() holds is that of the last turn and stays so
\* until it is returned, session_ended is false, and the finally block
\* that ends the run marks its row completed
C26_IterationLimitEndsRun ==
  /\ [](iterations <= MaxIterations)
  /\ [][InvokesLLM => iterations' = iterations + 1]_vars
  /\ [][AtIterationLimit =>
          /\ pc' \in {"head", "remaining"}
          /\ final_response = MaxIterations
          /\ ~session_ended']_vars
  /\ [][PastLoop => final_response' = final_response
                    /\ session_ended' = session_ended]_vars
  /\ [][Finalizes => /\ run_row'.current_state = "completed"
                     /\ run_row'.completed_at # NULL]_vars

\* a run that used up its turns without end_session and without a stop has
\* returned the last turn's response
C26_Witness ==
  /\ pc = "done"
  /\ iterations = MaxIterations
  /\ final_response = MaxIterations
  /\ ~session_ended
  /\ ~cancel_requested
  /\ run_row.current_state = "completed"

\* ---- C27 ------------------------------------------------------------------

\* C27: in every reachable state the run's row has completed_at set exactly
\* when its current_state is completed, whatever the interleaving of state
\* updates, asynchronous tool tasks, finalization and stop requests
C27_CompletedAtIffCompleted ==
  (run_row.completed_at # NULL) <=> (run_row.current_state = "completed")

\* ---- C28 ------------------------------------------------------------------

\* C28: once the run's row is completed it is terminal: no later step
\* changes its current_state or its completed_at, whoever completed it
C28_CompletedRowTerminal ==
  [][run_row.current_state = "completed" =>
       /\ run_row'.current_state = run_row.current_state
       /\ run_row'.completed_at = run_row.completed_at]_vars

-----------------------------------------------------------------------------
(* The parent relation of agent_executions (specification SpecStore) *)

\* ---- C29 ------------------------------------------------------------------

\* the row k parent steps above x, 0 when the chain ends before
RECURSIVE KthParent(_, _, _)
KthParent(x, k, rows) ==
  IF k = 0 \/ x = 0 THEN x
  ELSE KthParent(rows[x].parent_agent_id, k - 1, rows)

\* rows are numbered in the order of their creation
CreatedBefore(p, x) == p \in 1..(x - 1)

\* C29: every row's parent_agent_id is NULL or the id of a row created
\* earlier; hence no row is its own ancestor, and the descendant enumeration
\* of stop_agents_by_root ends for every root with exactly the rows whose
\* parent chain reaches the root
C29_ParentsFormForest ==
  /\ \A x \in DOMAIN executions :
        \/ executions[x].parent_agent_id = 0
        \/ CreatedBefore(executions[x].parent_agent_id, x)
  /\ \A x \in DOMAIN executions : \A k \in 1..Len(executions) :
        KthParent(x, k, executions) # x
  /\ \A r \in DOMAIN executions :
        get_all_descendants(r, executions) =
          {x \in DOMAIN executions : ReachesByParents(x, r, executions)}

\* a chain root, child, grandchild exists and a stop has enumerated the
\* root's tree
C29_Witness ==
  /\ last_op.op = "stop_tree"
  /\ \E x \in DOMAIN executions :
        /\ KthParent(x, 2, executions) = last_op.root
        /\ last_op.root # 0
        /\ x \in get_all_descendants(last_op.root, executions)

-----------------------------------------------------------------------------
(* Completion of tool_executions rows (specification Spec) *)

\* ---- C30 ------------------------------------------------------------------

\* the execution that row i records is still going on: the run awaits it,
\* or the asyncio task launched for it is running
InFlight(i) ==
  \/ pc \in {"sync_exec", "end_exec"} /\ cur_exec = i
  \/ \E id \in DOMAIN tasks : tasks[id].state = "running" /\ tasks[id].exec = i

\* C30: a tool_executions row is completed once, its completed_at and
\* result never changing afterwards, and no row is left with completed_at
\* NULL once its execution has ended, also when the owning run is cancelled
C30_EveryRowCompletedOnce ==
  /\ [][\A i \in DOMAIN tool_executions :
          tool_executions[i].completed_at # NULL =>
            tool_executions'[i] = tool_executions[i]]_vars
  /\ [](\A i \in DOMAIN tool_executions :
          tool_executions[i].completed_at = NULL => InFlight(i))

-----------------------------------------------------------------------------
(* The task wrapper, launch notices, parse errors, the wait phase
   (specifications Spec and SpecLive) *)

\* ---- C31 ------------------------------------------------------------------

\* the wrapper of task id runs to its end in this step
WrapperEnds(id) == tasks[id].state # "done" /\ tasks'[id].state = "done"

\* this step queues exactly the pair (id, result)
Queues(id, result) ==
  completed_results' = Append(completed_results, <<id, result>>)

\* execute_func raised into the wrapper of task id: the call was let
\* through by the authorization check and ended before any row was written
ExecuteRaised(id) ==
  /\ WrapperEnds(id)
  /\ tasks[id].state = "scheduled"
  /\ Whitelisted(tasks[id].blk.tool_name)
  /\ tool_executions' = tool_executions

\* C31: a launched task whose execute_func returns or raises queues exactly
\* one (task_id, result) pair and leaves pending in the same step; a wrapper
\* ends once, nothing else adds to the queue, and when execute_func raises
\* the queued result is the failure message
C31_WrapperQueuesOnePair ==
  /\ [][\A id \in DOMAIN tasks :
          WrapperEnds(id) =>
            /\ \E i \in DOMAIN completed_results' :
                  Queues(id, completed_results'[i][2])
            /\ id \in Range(pending_tasks)
            /\ id \notin Range(pending_tasks')]_vars
  /\ [][\A id \in DOMAIN tasks :
          tasks[id].state = "done" => tasks'[id].state = "done"]_vars
  /\ [][Len(completed_results') > Len(completed_results) =>
          \E id \in DOMAIN tasks : WrapperEnds(id)]_vars
  /\ [][\A id \in DOMAIN tasks :
          ExecuteRaised(id) => Queues(id, "task_error")]_vars

\* a task whose execute_func raised has ended: its failure message is in
\* the queue and the task is no longer pending
C31_Witness ==
  \E id \in DOMAIN tasks :
     /\ tasks[id].state = "done"
     /\ tasks[id].exec = 0
     /\ id \notin Range(pending_tasks)
     /\ \E i \in DOMAIN completed_results :
           completed_results[i] = <<id, "task_error">>

\* ---- C32 ------------------------------------------------------------------

\* _process_tool_calls returns from a turn that launched asynchronous calls
LaunchingTurnEnds == pc = "post" /\ pc' # "post" /\ launched_task_ids # <<>>

\* the launch notices of turn t
NoticesOf(t) ==
  {i \in DOMAIN messages :
     messages[i].kind = "tasks_launched" /\ messages[i].turn = t}

\* C32: a turn that launched asynchronous calls ends by appending one system
\* message that lists the task ids of the turn in the textual order of the
\* calls, whatever other blocks the turn holds, an end_session call included;
\* no turn has a second notice
C32_EveryLaunchingTurnNoticed ==
  /\ [][LaunchingTurnEnds =>
          /\ Len(messages') = Len(messages) + 1
          /\ messages'[Len(messages')].kind = "tasks_launched"
          /\ messages'[Len(messages')].role = "system"
          /\ messages'[Len(messages')].turn = iterations
          /\ messages'[Len(messages')].ids = launched_task_ids
          /\ \A i, j \in DOMAIN launched_task_ids :
                i < j => tasks[launched_task_ids[i]].blk.idx
                           < tasks[launched_task_ids[j]].blk.idx]_vars
  /\ [](\A t \in 1..MaxIterations : Cardinality(NoticesOf(t)) <= 1)

\* ---- C33 ------------------------------------------------------------------

\* C33: the parse-error message of a malformed block stands after the
\* assistant message of its turn
C33_ParseErrorAfterAssistantMessage ==
  \A i \in DOMAIN messages :
     messages[i].kind = "parse_error" => AssistantBefore(messages[i].turn, i)

\* ---- C34 ------------------------------------------------------------------

\* the asynchronous tasks of the run that have not ended
RunningTasks ==
  {id \in DOMAIN tasks : tasks[id].state \in {"scheduled", "running"}}

\* the step takes the head of the queue and, the session being open, appends
\* its task-completion message
DequeuedAndAppended ==
  /\ DequeuesResult
  /\ completed_results # <<>>
  /\ completed_results' = Tail(completed_results)
  /\ ~session_ended =>
       /\ Len(messages') = Len(messages) + 1
       /\ messages'[Len(messages')].kind = "task_completed"
       /\ messages'[Len(messages')].ids = <<Head(completed_results)[1]>>

\* C34: in the wait phase with a task still running the loop goes on to the
\* next LLM call only through a step that dequeues and appends a result,
\* blocking on the queue without timeout until then, whether or not the turn
\* signalled 'continue generating'; the timed poll is entered only with no
\* task running; with no task running, an empty queue and 'continue' the
\* loop returns to its head at once, appending nothing
C34_WaitsForRunningTasks ==
  /\ [][pc = "wait" /\ RunningTasks # {} =>
          DequeuedAndAppended \/ (completed_results = <<>> /\ pc' \in {"wait", "block"})]_vars
  /\ [][pc = "block" =>
          DequeuedAndAppended \/ pc' \in {"block", "finally"}]_vars
  /\ [](pc = "poll" => RunningTasks = {})
  /\ [][pc' = "head" /\ pc # "head" => pc \in {"wait", "block", "poll"}]_vars
  /\ [][pc = "wait" /\ RunningTasks = {} /\ completed_results = <<>>
          /\ llm_should_continue =>
            /\ pc' \in {"wait", "head"}
            /\ messages' = messages
            /\ processed_count' = processed_count]_vars

\* a turn after the first signalled 'continue generating' while a task
\* launched earlier is still running, and the loop blocks on the queue
C34_Witness ==
  /\ pc = "block"
  /\ llm_should_continue
  /\ iterations >= 2
  /\ completed_results = <<>>
  /\ \E id \in DOMAIN tasks : tasks[id].state = "running"

-----------------------------------------------------------------------------
(* stop_all_agents and other projects (specification SpecStore) *)

\* ---- C35 ------------------------------------------------------------------

\* this step is a call of stop_all_agents, from entry to return
StopAllReturns == last_op'.n = last_op.n + 1 /\ last_op'.op = "stop_all"

\* C35: stop_all_agents(P) leaves every run of another project alone: its
\* row is unchanged and the task hosting it is not cancelled
C35_StopAllKeepsToProject ==
  [][StopAllReturns =>
       \A x \in DOMAIN executions :
          executions[x].project_dir # last_op'.project =>
             /\ executions'[x] = executions[x]
             /\ handles'[runs[x].handle] = handles[runs[x].handle]]_vars

-----------------------------------------------------------------------------
(* The conversation, children, the end of the session, termination
   (specifications Spec, SpecStore and SpecLive) *)

\* ---- C36 ------------------------------------------------------------------

\* every message of a is a message of b, at the same place
IsPrefix(a, b) == Len(a) <= Len(b) /\ SubSeq(b, 1, Len(a)) = a

\* the conversation without its last message when that is the transient
\* pending-tasks message
WithoutTransient ==
  IF messages # <<>> /\ messages[Len(messages)].kind = "pending_tasks"
  THEN SubSeq(messages, 1, Len(messages) - 1)
  ELSE messages

\* a step of an asynchronous task wrapper: a task changes state while the
\* run's coroutine stays where it is
WrapperStep ==
  /\ pc' = pc
  /\ \E id \in DOMAIN tasks : tasks'[id].state # tasks[id].state

\* C36: the first message is always the system prompt; every step leaves
\* the messages already present in place and unmodified, apart from the
\* transient pending-tasks message, and may append after them; no step of a
\* task wrapper changes the conversation
C36_ConversationAppendOnly ==
  /\ [](messages # <<>> /\ messages[1] = SystemPromptMsg)
  /\ [][IsPrefix(WithoutTransient, messages')]_vars
  /\ [][WrapperStep => messages' = messages]_vars

\* a later turn: a transient message was injected and removed, a task ended
\* and its completion message was appended by the loop
C36_Witness ==
  /\ pc = "sync"
  /\ iterations >= 2
  /\ \E id \in DOMAIN tasks : tasks[id].state = "done" /\ TaskCompletedAt(id) # {}
  /\ \E id \in DOMAIN tasks : tasks[id].state = "running"
  /\ \A i \in DOMAIN messages : messages[i].kind # "pending_tasks"
  /\ messages[Len(messages)].kind = "assistant"

\* ---- C37 ------------------------------------------------------------------

\* run r leaves run() in this step without having been cancelled
ExitsNormally(r) ==
  /\ runs[r].phase = "loop"
  /\ runs'[r].phase = "finished"
  /\ handles[runs[r].handle].state = "active"

\* the runs spawned by r
ChildrenOf(r) == {c \in DOMAIN executions : executions[c].parent_agent_id = r}

\* C37: when a run exits normally and its finally block marks its row
\* completed, every run it spawned, synchronously or asynchronously, has
\* left run() and has its row marked completed already, and every
\* asynchronous task of the run has been awaited to its end
C37_ChildrenCompletedBeforeParent ==
  [][\A r \in DOMAIN runs :
        ExitsNormally(r) =>
          /\ executions'[r].completed_at # NULL
          /\ \A c \in ChildrenOf(r) :
                /\ executions[c].completed_at # NULL
                /\ ~Unfinished(c)
          /\ \A h \in DOMAIN handles :
                handles[h].owner = r => handles[h].state = "done"]_vars

\* a run that spawned a synchronous and an asynchronous child has exited
\* normally, unmarked by any stop
C37_Witness ==
  /\ last_op.n = 0
  /\ \E r \in DOMAIN runs :
        /\ ~Unfinished(r)
        /\ executions[r].completed_at # NULL
        /\ \E c, d \in ChildrenOf(r) :
              /\ executions[c].call_mode = "synchronous"
              /\ executions[d].call_mode = "asynchronous"
              /\ executions[c].completed_at # NULL
              /\ executions[d].completed_at # NULL

\* ---- C38 ------------------------------------------------------------------

\* an end_session was accepted: the built-in tool has been dispatched
Accepted ==
  \E x \in DOMAIN tool_executions :
     tool_executions[x].tool_name = END_SESSION_TOOL

\* C38: once an end_session is accepted the run calls the LLM no more,
\* dispatches no tool, launches no task and appends no message; it is
\* never again in the part of the loop that does so
C38_NothingAfterAcceptedEndSession ==
  /\ [][Accepted =>
          /\ pc' # "llm"
          /\ iterations' = iterations
          /\ messages' = messages
          /\ Len(tool_executions') = Len(tool_executions)
          /\ DOMAIN tasks' = DOMAIN tasks
          /\ launched_count' = launched_count
          /\ task_counter' = task_counter]_vars
  /\ [](Accepted => pc \notin {"llm", "sync", "sync_exec", "post"})

\* a run that had launched a task ended by an accepted end_session and was
\* finalized
C38_Witness ==
  /\ Accepted
  /\ pc = "done"
  /\ session_ended
  /\ ~cancel_requested
  /\ launched_count >= 1

\* ---- C39 (specification SpecLive) -----------------------------------------

\* the coroutine of run() is suspended in the wait phase
InWaitPhase == pc \in {"block", "poll"}

\* the loop test passes and another pass of the loop body begins
EntersLoopBody == pc = "head" /\ pc' \notin {"head", "remaining"}

\* C39: when every LLM call and every tool execution returns and nobody
\* stops the run, run() ends; a wait on the queue always ends; and every
\* pass of the loop begins by advancing the iteration counter, which is
\* below max_iterations when it does
C39_RunTerminates ==
  /\ <>(pc = "done")
  /\ InWaitPhase ~> ~InWaitPhase
  /\ (pc = "gather") ~> (pc # "gather")
  /\ [][EntersLoopBody =>
          /\ iterations < MaxIterations
          /\ iterations' = iterations + 1]_vars

\* a run that blocked for a task result, consumed it and used up its turns
\* has ended
C39_Witness ==
  /\ pc = "done"
  /\ iterations = MaxIterations
  /\ ~session_ended
  /\ processed_count >= 1
  /\ launched_count = processed_count
  /\ TaskCompletedMsgs # {}

-----------------------------------------------------------------------------
(* Missed intervals (specification SpecSched) *)

\* ---- C40 ------------------------------------------------------------------

\* the interval of a schedule row, in minutes
DeltaOf(row) == row.interval_value * UnitOfKind[row.schedule_type]

\* C40: a pass of the scheduler triggers no schedule twice, two triggers of
\* one schedule are never of the same minute, and a schedule that last ran
\* at t is not selected as due before t plus its interval, however many
\* intervals had gone by before that run
C40_OneFiringPerDueSchedule ==
  /\ [][\A k, l \in DOMAIN FiredNow :
          k # l => FiredNow[k].schedule_id # FiredNow[l].schedule_id]_vars
  /\ [](\A k, l \in DOMAIN fired :
          (k < l /\ fired[k].schedule_id = fired[l].schedule_id)
            => fired[k].at < fired[l].at)
  /\ [](\A i \in DOMAIN schedules :
          (schedules[i].last_run_at # NULL /\ schedules[i].enabled
             /\ schedules[i].next_run_at <= wall)
            => schedules[i].last_run_at[1] + DeltaOf(schedules[i]) <= wall)

\* an every-minute schedule ran for the first time three minutes after its
\* creation, once, and is next due a minute after that run
C40_Witness ==
  \E i \in DOMAIN schedules :
     /\ schedules[i].schedule_type = "minutes"
     /\ schedules[i].interval_value = 1
     /\ schedules[i].start_from = NULL
     /\ schedules[i].enabled
     /\ Cardinality({k \in DOMAIN fired : fired[k].schedule_id = i}) = 1
     /\ \E k \in DOMAIN fired :
           /\ fired[k].schedule_id = i
           /\ fired[k].at = schedules[i].created_at + 3
           /\ fired[k].at = wall
     /\ schedules[i].next_run_at = wall + 1

=============================================================================
